---- MODULE Spec2Model ----
(***************************************************************************)
(* Authorization core and tenant-scoped CRUD handlers of the               *)
(* administration / purchasing-inventory microservice.                     *)
(*                                                                         *)
(* A request is one atomic step: the FastAPI dependencies (get_current_user*)
(* and the guard built on it) run first, then the handler body.  The       *)
(* request and its response are kept in req / resp until the request ends  *)
(* (EndRequest), so that properties of the form "a request with such a     *)
(* token gets such an answer" are state predicates.                        *)
(***************************************************************************)
EXTENDS Integers, FiniteSets, Sequences, TLC

VARIABLES
    clientes,              \* table clientes
    contactos_clientes,    \* table contactos_clientes
    usuarios,              \* table usuarios
    roles,                 \* table roles
    permisos_roles,        \* table permisos_roles (RolPermiso)
    roles_usuarios,        \* table roles_usuarios (UsuarioRole)
    proveedores,           \* table proveedores
    categorias_productos,  \* table categorias_productos
    productos,             \* table productos
    ordenes_compra,        \* table ordenes_compra
    ordenes_compra_items,  \* table ordenes_compra_items
    facturas_proveedores,  \* table facturas_proveedores
    ajustes_inventario,    \* table ajustes_inventario
    alertas_stock,         \* table alertas_stock
    req,                   \* the last request: operation, bearer token, arguments
    resp,                  \* its response: status, body, whether the handler body ran
    now,                   \* the clock (datetime.now), in ticks
    issued,                \* the tokens login has handed to clients
    tx,                    \* an update_rol request served step by step: its
                           \* position and the writes of its open transaction
    tbl_permisos           \* table permisos

adminTables == <<clientes, contactos_clientes, usuarios, roles, permisos_roles,
                 roles_usuarios>>
comprasTables == <<proveedores, categorias_productos, productos, ordenes_compra,
                   ordenes_compra_items, facturas_proveedores, ajustes_inventario,
                   alertas_stock>>
clientVars == <<now, issued, tx, tbl_permisos>>
vars == <<adminTables, comprasTables, req, resp, clientVars>>

-----------------------------------------------------------------------------
(* Bounds *)

\* largest permission list carried by a token of the guard specification
MaxPerms == 1
\* rows the purchasing/inventory handlers may add to their tables
MaxRows == 2
\* users crear_usuario may add
MaxUsuarios == 1
\* roles create_rol may add
MaxRoles == 1
\* tenants create_cliente may add
MaxClientes == 1
\* contacts add_contacto_to_cliente may add
MaxContactos == 1

-----------------------------------------------------------------------------
(* Values *)

\* Python None
NULL == "None"
\* the empty string, the one falsy string
EMPTY == ""
\* a JSON value that is not a string (a number), as a claim of a token
NonStr == "<number>"

SUPER_ADMIN_ROLE_NAME == "Super Admin"

\* permission codes the endpoints require
PermCodes ==
    { "compras.crear", "compras.leer",
      "inventario.productos.crear", "inventario.productos.leer",
      "inventario.productos.actualizar",
      "administracion.usuarios.crear", "administracion.usuarios.leer",
      "administracion.usuarios.actualizar", "administracion.usuarios.eliminar",
      "administracion.roles.crear", "administracion.roles.leer",
      "administracion.roles.actualizar", "administracion.roles.eliminar" }

\* uuid.UUID(hex): the textual forms it accepts map to the UUID value, a
\* string of any other shape raises ValueError, a non-string raises
\* AttributeError (hex.replace)
UUID(hex) ==
    CASE hex = NonStr -> "AttributeError"
      [] hex \in {"t1", "{t1}"} -> "T1"
      [] hex \in {"t2", "{t2}"} -> "T2"
      [] hex \in {"u0", "{u0}"} -> "U0"
      [] hex \in {"u1", "{u1}"} -> "U1"
      [] hex \in {"u2", "{u2}"} -> "U2"
      [] OTHER -> "ValueError"

\* Python truthiness of a decoded claim: None and "" are falsy
Truthy(v) == v \notin {NULL, EMPTY}

-----------------------------------------------------------------------------
(* Bearer tokens *)

\* A token is its form (what jwt.decode makes of the string) and the claims
\* that were signed into it.  Only a well-formed, rightly signed, unexpired
\* token ("valid") yields its claims.
NoClaims == [user_id |-> NULL, cliente_id |-> NULL, roles |-> {}, permisos |-> {}]

InvalidTokens ==
    { [form |-> f, claims |-> NoClaims] : f \in {"malformed", "badsig", "expired"} }

ValidTokens(userClaims, clienteClaims, roleSets, permSets) ==
    { [form |-> "valid",
       claims |-> [user_id |-> u, cliente_id |-> c, roles |-> r, permisos |-> p]] :
         u \in userClaims, c \in clienteClaims, r \in roleSets, p \in permSets }

\* tokens of the guard specification: every shape of user_id and cliente_id
GuardTokens ==
    InvalidTokens \cup
    ValidTokens({NULL, EMPTY, "u1", "zz", NonStr},
                {NULL, EMPTY, "t1", "{t1}", "t2", "zz", NonStr},
                SUBSET {SUPER_ADMIN_ROLE_NAME, "Administrador"},
                {p \in SUBSET PermCodes : Cardinality(p) <= MaxPerms})

\* tokens sent to an endpoint that requires permission_code
EndpointTokens(permission_code) ==
    InvalidTokens \cup
    ValidTokens({NULL, "u1", "zz"},
                {NULL, "t1", "t2", "zz"},
                {{}, {SUPER_ADMIN_ROLE_NAME}},
                {{}, {permission_code}})

\* tokens sent to the user and role endpoints guarded by permission_code
AdminTokens(permission_code) ==
    InvalidTokens \cup
    ValidTokens({"u1"},
                {NULL, "t1", "t2"},
                {{}, {SUPER_ADMIN_ROLE_NAME}},
                {{}, {permission_code}})

\* tokens sent to an endpoint guarded by check_super_admin_role
GlobalTokens ==
    InvalidTokens \cup
    ValidTokens({NULL, "u1"},
                {NULL, "t1", "zz"},
                {{}, {"Administrador"}, {SUPER_ADMIN_ROLE_NAME}},
                {{}, {"administracion.usuarios.leer"}})

-----------------------------------------------------------------------------
(* security.py *)

\* jwt.decode under try/except: the payload, or None for a token that is
\* malformed, wrongly signed or expired
\* decode_access_token handing on the payload of an expired token
decode_access_token_keeps_expired(token) ==
    IF token.form \in {"valid", "expired"}
    THEN [is_none |-> FALSE, payload |-> token.claims]
    ELSE [is_none |-> TRUE, payload |-> NoClaims]

decode_access_token(token) ==
    IF token.form = "valid" THEN [is_none |-> FALSE, payload |-> token.claims]
    ELSE [is_none |-> TRUE, payload |-> NoClaims]

NoUser == [nombre_usuario |-> NULL, user_id |-> NULL, cliente_id |-> NULL,
           roles |-> {}, permisos |-> {}]

\* result of a dependency: status 200 with the value it hands on, or the
\* status of the exception it raised
Allow(current_user) == [status |-> 200, detail |-> "ok", user |-> current_user]
Deny(status, detail) == [status |-> status, detail |-> detail, user |-> NoUser]

\* get_current_user building TokenData without the cliente_id it parsed
get_current_user_drops_cliente(token) ==
    LET payload == decode_access_token(token).payload IN
    IF \/ decode_access_token(token).is_none
       \/ payload.user_id = NULL
       \/ UUID(payload.user_id) \in {"AttributeError", "ValueError"}
       \/ (Truthy(payload.cliente_id)
             /\ UUID(payload.cliente_id) \in {"AttributeError", "ValueError"})
    THEN Deny(401, "credentials")
    ELSE Allow([nombre_usuario |-> NULL,
                user_id |-> UUID(payload.user_id),
                cliente_id |-> NULL,
                roles |-> payload.roles,
                permisos |-> payload.permisos])

\* get_current_user looking the user up and refusing one that is not active
get_current_user_active_only(token) ==
    LET payload == decode_access_token(token).payload IN
    IF \/ decode_access_token(token).is_none
       \/ payload.user_id = NULL
       \/ UUID(payload.user_id) \in {"AttributeError", "ValueError"}
       \/ (Truthy(payload.cliente_id)
             /\ UUID(payload.cliente_id) \in {"AttributeError", "ValueError"})
       \/ \E u \in usuarios : u.id = UUID(payload.user_id) /\ u.estado # "activo"
    THEN Deny(401, "credentials")
    ELSE Allow([nombre_usuario |-> NULL,
                user_id |-> UUID(payload.user_id),
                cliente_id |-> IF Truthy(payload.cliente_id)
                               THEN UUID(payload.cliente_id) ELSE NULL,
                roles |-> payload.roles,
                permisos |-> payload.permisos])

get_current_user(token) ==
    LET decoded == decode_access_token(token)
        payload == decoded.payload
    IN
    IF decoded.is_none THEN Deny(401, "credentials")
    ELSE
      LET user_id_str == payload.user_id
          cliente_id_str == payload.cliente_id
      IN
      IF user_id_str = NULL THEN Deny(401, "credentials")
      ELSE
        LET cliente_id_uuid == IF Truthy(cliente_id_str) THEN UUID(cliente_id_str)
                               ELSE NULL
            user_id_uuid == UUID(user_id_str)
        IN
        IF cliente_id_uuid = "AttributeError" THEN Deny(500, "AttributeError")
        ELSE IF cliente_id_uuid = "ValueError" THEN Deny(401, "credentials")
        ELSE IF user_id_uuid = "AttributeError" THEN Deny(500, "AttributeError")
        ELSE IF user_id_uuid = "ValueError" THEN Deny(401, "credentials")
        ELSE Allow([nombre_usuario |-> NULL,
                    user_id |-> user_id_uuid,
                    cliente_id |-> cliente_id_uuid,
                    roles |-> payload.roles,
                    permisos |-> payload.permisos])

-----------------------------------------------------------------------------
(* security_dependencies.py *)

\* permission_checker without the Super Admin bypass
permission_checker_no_bypass(permission_code, current_user) ==
    IF permission_code \notin current_user.permisos
    THEN Deny(403, "missing-permission")
    ELSE IF current_user.cliente_id = NULL
         THEN Deny(403, "no-tenant")
    ELSE Allow(current_user)

\* permission_checker testing the tenant before the permission
permission_checker_tenant_first(permission_code, current_user) ==
    IF SUPER_ADMIN_ROLE_NAME \in current_user.roles THEN Allow(current_user)
    ELSE IF current_user.cliente_id = NULL
         THEN Deny(403, "no-tenant")
    ELSE IF permission_code \notin current_user.permisos
         THEN Deny(403, "missing-permission")
    ELSE Allow(current_user)

\* permission_checker without the tenancy test
permission_checker_no_tenant_check(permission_code, current_user) ==
    IF SUPER_ADMIN_ROLE_NAME \in current_user.roles THEN Allow(current_user)
    ELSE IF permission_code \notin current_user.permisos
         THEN Deny(403, "missing-permission")
    ELSE Allow(current_user)

permission_checker(permission_code, current_user) ==
    IF SUPER_ADMIN_ROLE_NAME \in current_user.roles THEN Allow(current_user)
    ELSE IF permission_code \notin current_user.permisos
         THEN Deny(403, "missing-permission")
    ELSE IF current_user.cliente_id = NULL
         THEN Deny(403, "no-tenant")
    ELSE Allow(current_user)

\* require_permission handing on the user of get_current_user unchecked
require_permission_unchecked(permission_code, token) ==
    get_current_user(token)

\* Depends(require_permission(code)): get_current_user, then the checker
require_permission(permission_code, token) ==
    LET g == get_current_user(token) IN
    IF g.status # 200 THEN g ELSE permission_checker(permission_code, g.user)

check_super_admin_role_user(current_user) ==
    IF SUPER_ADMIN_ROLE_NAME \notin current_user.roles
    THEN Deny(403, "global-only")
    ELSE Allow(current_user)

\* Depends(check_super_admin_role): get_current_user, then the role test
check_super_admin_role(token) ==
    LET g == get_current_user(token) IN
    IF g.status # 200 THEN g ELSE check_super_admin_role_user(g.user)

-----------------------------------------------------------------------------
(* Requests and responses *)

NoArg == [none |-> TRUE]

Request(op, token, permission_code, arg) ==
    [op |-> op, tok |-> token, code |-> permission_code, arg |-> arg]

\* a dependency raised: FastAPI answers with its status, the handler is not called
Rejected(dep) ==
    [status |-> dep.status, detail |-> dep.detail, ran |-> FALSE,
     user |-> NoUser, scope |-> NULL, body |-> {}]

\* the handler body ran with current_user and answered; scope is the tenant id
\* its queries were filtered by (NULL when it used none)
Answered(status, detail, current_user, scope, body) ==
    [status |-> status, detail |-> detail, ran |-> TRUE,
     user |-> current_user, scope |-> scope, body |-> body]

\* a dependency evaluated on its own
Depended(dep) ==
    [status |-> dep.status, detail |-> dep.detail, ran |-> FALSE,
     user |-> dep.user, scope |-> NULL, body |-> {}]

-----------------------------------------------------------------------------
(* security.py: passwords *)

\* bcrypt's input limit, the default max_length of truncate_password
BCRYPT_MAX_BYTES == 72

\* a password: ascii one-byte characters followed by wide two-byte characters
Password(ascii, wide) == [ascii |-> ascii, wide |-> wide]
\* its UTF-8 encoding: the bytes of the ascii characters, those of the whole
\* wide characters, and partial = 1 when the first byte of one more wide
\* character follows
Encode(password) == [ascii |-> password.ascii, wide |-> password.wide, partial |-> 0]
Len_bytes(bytes) == bytes.ascii + 2 * bytes.wide + bytes.partial

Min(a, b) == IF a <= b THEN a ELSE b

\* bytes[:max_length]
Slice(bytes, max_length) ==
    LET ascii == Min(bytes.ascii, max_length)
        rest == max_length - ascii
        wide == Min(bytes.wide, rest \div 2)
        left == rest - 2 * wide
    IN [ascii |-> ascii, wide |-> wide,
        partial |-> IF left > 0 /\ (bytes.wide > wide \/ bytes.partial > 0)
                    THEN 1 ELSE 0]

\* bytes.decode('utf-8', errors='ignore'): an incomplete character is dropped
Decode_ignore(bytes) == Password(bytes.ascii, bytes.wide)

truncate_password(password) ==
    LET password_bytes == Encode(password) IN
    IF Len_bytes(password_bytes) > BCRYPT_MAX_BYTES
    THEN Decode_ignore(Slice(password_bytes, BCRYPT_MAX_BYTES))
    ELSE password

\* the bcrypt backend passlib finds installed: older releases hash the first
\* 72 bytes of a longer secret, newer ones raise ValueError ("password cannot
\* be longer than 72 bytes")
Builds == {"bcrypt truncates", "bcrypt raises"}

\* pwd_context.hash(secret): the salted digest stands for the bytes hashed
pwd_context_hash(secret, build) ==
    IF build = "bcrypt raises" /\ Len_bytes(Encode(secret)) > BCRYPT_MAX_BYTES
    THEN [raised |-> TRUE, digest |-> Encode(Password(0, 0))]
    ELSE [raised |-> FALSE, digest |-> Slice(Encode(secret), BCRYPT_MAX_BYTES)]

\* pwd_context.verify(secret, hash): "True", "False" or the exception raised
pwd_context_verify(secret, hash, build) ==
    IF build = "bcrypt raises" /\ Len_bytes(Encode(secret)) > BCRYPT_MAX_BYTES
    THEN "ValueError"
    ELSE IF Slice(Encode(secret), BCRYPT_MAX_BYTES) = hash.digest THEN "True"
    ELSE "False"

verify_password(plain_password, hashed_password, build) ==
    pwd_context_verify(plain_password, hashed_password, build)

get_password_hash(password, build) ==
    pwd_context_hash(truncate_password(password), build)

\* the password routers/seed.py gives every seeded user: "12345"
SeedPassword == Password(5, 0)
SeedHash == get_password_hash(SeedPassword, "bcrypt truncates")

\* no update_rol request is being served step by step
NoTx == [pc |-> "none", status |-> 0, rol_id |-> "None", nombre |-> "None",
         permiso_ids |-> [is_none |-> TRUE, ids |-> {}],
         old_roles |-> {}, old_links |-> {}, roles |-> {}, links |-> {}]

-----------------------------------------------------------------------------
(* Initial database: the seeded tenants, users and roles (routers/seed.py),  *)
(* two tenants of it, and the alert and invoice rows the shared database     *)
(* holds for them (no endpoint of this service inserts either).              *)

\* PERMISOS_DATA_LIST: the catalogue, a permission's code standing for its id;
\* its first entry and the codes the endpoints require
primer_permiso_id == "administracion.clientes.leer"
InitPermisos == {[id |-> c, codigo |-> c] : c \in PermCodes \cup {primer_permiso_id}}

InitClientes ==
    { [id |-> "T1", subdominio |-> "karumbe", estado |-> "activo"],
      [id |-> "T2", subdominio |-> "martillo", estado |-> "activo"] }

InitUsuarios ==
    { [id |-> "U0", cliente_id |-> NULL, nombre_usuario |-> "super_admin",
       nombre |-> "Mr.", estado |-> "activo", contrasena_hash |-> SeedHash],
      [id |-> "U1", cliente_id |-> "T1", nombre_usuario |-> "admin_karumbe",
       nombre |-> "Carlos", estado |-> "activo", contrasena_hash |-> SeedHash],
      [id |-> "U2", cliente_id |-> "T2", nombre_usuario |-> "admin_martillo",
       nombre |-> "Roberto", estado |-> "activo", contrasena_hash |-> SeedHash] }

InitRoles ==
    { [id |-> "R0", cliente_id |-> NULL, nombre |-> SUPER_ADMIN_ROLE_NAME,
       es_rol_sistema |-> TRUE],
      [id |-> "R1", cliente_id |-> "T1", nombre |-> "Administrador",
       es_rol_sistema |-> TRUE] }

InitPermisosRoles ==
    { [rol_id |-> "R1", permiso_id |-> "administracion.usuarios.leer"] }

InitRolesUsuarios ==
    { [usuario_id |-> "U0", rol_id |-> "R0"],
      [usuario_id |-> "U1", rol_id |-> "R1"] }

InitAlertas ==
    { [id |-> "A1", cliente_id |-> "T1", tipo_alerta |-> "stock_minimo",
       leida |-> FALSE],
      [id |-> "A2", cliente_id |-> "T2", tipo_alerta |-> "stock_minimo",
       leida |-> FALSE] }

InitFacturas ==
    { [id |-> "F1", cliente_id |-> "T1", proveedor_id |-> NULL,
       numero_factura |-> "A", estado |-> "pendiente"],
      [id |-> "F2", cliente_id |-> "T2", proveedor_id |-> NULL,
       numero_factura |-> "A", estado |-> "pendiente"] }

NoRequest == Request("none", [form |-> "malformed", claims |-> NoClaims], NULL, NoArg)
NoResponse == [status |-> 0, detail |-> "none", ran |-> FALSE,
               user |-> NoUser, scope |-> NULL, body |-> {}]

Init ==
    /\ clientes = InitClientes
    /\ contactos_clientes = {}
    /\ usuarios = InitUsuarios
    /\ roles = InitRoles
    /\ permisos_roles = InitPermisosRoles
    /\ roles_usuarios = InitRolesUsuarios
    /\ proveedores = {}
    /\ categorias_productos = {}
    /\ productos = {}
    /\ ordenes_compra = {}
    /\ ordenes_compra_items = {}
    /\ facturas_proveedores = InitFacturas
    /\ ajustes_inventario = {}
    /\ alertas_stock = InitAlertas
    /\ req = NoRequest
    /\ resp = NoResponse
    /\ now = 0
    /\ issued = {}
    /\ tx = NoTx
    /\ tbl_permisos = InitPermisos

\* no request is being served
Idle == req.op = "none"

\* database.get_db after the yield: the response has been sent, the session
\* is closed and the service waits for the next request
EndRequest ==
    /\ ~Idle
    /\ req' = NoRequest
    /\ resp' = NoResponse
    /\ UNCHANGED <<clientVars, adminTables, comprasTables>>

-----------------------------------------------------------------------------
(* The guards as functions of the token (no handler behind them) *)

Depends_get_current_user ==
    /\ Idle
    /\ \E token \in GuardTokens :
        /\ req' = Request("get_current_user", token, NULL, NoArg)
        /\ resp' = Depended(get_current_user(token))
        /\ UNCHANGED <<clientVars, adminTables, comprasTables>>

Depends_require_permission ==
    /\ Idle
    /\ \E token \in GuardTokens, permission_code \in PermCodes :
        /\ req' = Request("require_permission", token, permission_code, NoArg)
        /\ resp' = Depended(require_permission(permission_code, token))
        /\ UNCHANGED <<clientVars, adminTables, comprasTables>>

Depends_check_super_admin_role ==
    /\ Idle
    /\ \E token \in GuardTokens :
        /\ req' = Request("check_super_admin_role", token, NULL, NoArg)
        /\ resp' = Depended(check_super_admin_role(token))
        /\ UNCHANGED <<clientVars, adminTables, comprasTables>>

NextGuard ==
    \/ Depends_get_current_user
    \/ Depends_require_permission
    \/ Depends_check_super_admin_role
    \/ EndRequest

SpecGuard == Init /\ [][NextGuard]_vars

-----------------------------------------------------------------------------
(* routers/compras_inventarios.py *)

\* request inputs
Codigos == {"A"}
EstadoFilters == {NULL, "activo", "inactivo"}

\* uuid.uuid4 primary keys, in order of insertion
ProveedorIds == <<"P1", "P2", "P3", "P4", "P5">>
CategoriaIds == <<"C1", "C2", "C3", "C4", "C5">>
ProductoIds == <<"K1", "K2", "K3", "K4", "K5">>
OrdenIds == <<"O1", "O2", "O3", "O4", "O5">>
AjusteIds == <<"J1", "J2", "J3", "J4", "J5">>
NewId(ids, table) == ids[Cardinality(table) + 1]

\* rows added so far by the handlers below
ComprasRows ==
    Cardinality(proveedores) + Cardinality(categorias_productos)
      + Cardinality(productos) + Cardinality(ordenes_compra)
      + Cardinality(ajustes_inventario)

\* foreign keys: the referenced row must exist, or the INSERT raises IntegrityError
Exists(table, id) == \E row \in table : row.id = id
FkOk(table, id) == id = NULL \/ Exists(table, id)

get_cliente_id_from_token(current_user) ==
    IF current_user.cliente_id = NULL
    THEN [status |-> 403, value |-> NULL]
    ELSE [status |-> 200, value |-> current_user.cliente_id]

\* the handler raised before touching a row
Raised(status, detail, current_user, scope) ==
    Answered(status, detail, current_user, scope, {})

crear_proveedor ==
    /\ Idle
    /\ \E token \in EndpointTokens("compras.crear"), codigo_proveedor \in Codigos :
        LET dep == require_permission("compras.crear", token)
            current_user == dep.user
            tenant == get_cliente_id_from_token(current_user)
            cliente_id == tenant.value
            db_proveedor == [id |-> NewId(ProveedorIds, proveedores),
                             cliente_id |-> cliente_id,
                             codigo_proveedor |-> codigo_proveedor,
                             estado |-> "activo"]
            out == IF dep.status # 200 THEN Rejected(dep)
                   ELSE IF tenant.status # 200
                   THEN Raised(403, "no-tenant-in-handler", current_user, NULL)
                   ELSE IF \E p \in proveedores :
                              /\ p.cliente_id = cliente_id
                              /\ p.codigo_proveedor = codigo_proveedor
                   THEN Raised(400, "duplicate", current_user, cliente_id)
                   ELSE IF ~Exists(clientes, cliente_id)
                   THEN Raised(400, "integrity", current_user, cliente_id)
                   ELSE Answered(201, "created", current_user, cliente_id, {db_proveedor})
        IN
        /\ out.status = 201 => ComprasRows < MaxRows
        /\ req' = Request("crear_proveedor", token, "compras.crear",
                          [codigo |-> codigo_proveedor])
        /\ resp' = out
        /\ proveedores' = IF out.status = 201 THEN proveedores \cup {db_proveedor}
                          ELSE proveedores
        /\ UNCHANGED <<clientVars, adminTables, categorias_productos, productos, ordenes_compra,
                       ordenes_compra_items, facturas_proveedores, ajustes_inventario,
                       alertas_stock>>

obtener_proveedores ==
    /\ Idle
    /\ \E token \in EndpointTokens("compras.leer"), estado \in EstadoFilters :
        LET dep == require_permission("compras.leer", token)
            current_user == dep.user
            tenant == get_cliente_id_from_token(current_user)
            cliente_id == tenant.value
            query == {p \in proveedores :
                        /\ p.cliente_id = cliente_id
                        /\ (Truthy(estado) => p.estado = estado)}
            out == IF dep.status # 200 THEN Rejected(dep)
                   ELSE IF tenant.status # 200
                   THEN Raised(403, "no-tenant-in-handler", current_user, NULL)
                   ELSE Answered(200, "list", current_user, cliente_id, query)
        IN
        /\ req' = Request("obtener_proveedores", token, "compras.leer",
                          [estado |-> estado])
        /\ resp' = out
        /\ UNCHANGED <<clientVars, adminTables, comprasTables>>

obtener_proveedor ==
    /\ Idle
    /\ \E token \in EndpointTokens("compras.leer"),
          proveedor_id \in {ProveedorIds[1], ProveedorIds[2]} :
        LET dep == require_permission("compras.leer", token)
            current_user == dep.user
            tenant == get_cliente_id_from_token(current_user)
            cliente_id == tenant.value
            found == {p \in proveedores :
                        p.id = proveedor_id /\ p.cliente_id = cliente_id}
            out == IF dep.status # 200 THEN Rejected(dep)
                   ELSE IF tenant.status # 200
                   THEN Raised(403, "no-tenant-in-handler", current_user, NULL)
                   ELSE IF found = {}
                   THEN Raised(404, "not-found", current_user, cliente_id)
                   ELSE Answered(200, "row", current_user, cliente_id, found)
        IN
        /\ req' = Request("obtener_proveedor", token, "compras.leer",
                          [id |-> proveedor_id])
        /\ resp' = out
        /\ UNCHANGED <<clientVars, adminTables, comprasTables>>

crear_categoria ==
    /\ Idle
    /\ \E token \in EndpointTokens("inventario.productos.crear"), nombre \in Codigos,
          categoria_padre_id \in {NULL, CategoriaIds[1]} :
        LET dep == require_permission("inventario.productos.crear", token)
            current_user == dep.user
            tenant == get_cliente_id_from_token(current_user)
            cliente_id == tenant.value
            db_categoria == [id |-> NewId(CategoriaIds, categorias_productos),
                             cliente_id |-> cliente_id,
                             nombre |-> nombre,
                             categoria_padre_id |-> categoria_padre_id]
            out == IF dep.status # 200 THEN Rejected(dep)
                   ELSE IF tenant.status # 200
                   THEN Raised(403, "no-tenant-in-handler", current_user, NULL)
                   ELSE IF \E c \in categorias_productos :
                              c.cliente_id = cliente_id /\ c.nombre = nombre
                   THEN Raised(400, "duplicate", current_user, cliente_id)
                   ELSE IF \/ ~Exists(clientes, cliente_id)
                           \/ ~FkOk(categorias_productos, categoria_padre_id)
                   THEN Raised(400, "integrity", current_user, cliente_id)
                   ELSE Answered(201, "created", current_user, cliente_id, {db_categoria})
        IN
        /\ out.status = 201 => ComprasRows < MaxRows
        /\ req' = Request("crear_categoria", token, "inventario.productos.crear",
                          [nombre |-> nombre, categoria_padre_id |-> categoria_padre_id])
        /\ resp' = out
        /\ categorias_productos' =
              IF out.status = 201 THEN categorias_productos \cup {db_categoria}
              ELSE categorias_productos
        /\ UNCHANGED <<clientVars, adminTables, proveedores, productos, ordenes_compra,
                       ordenes_compra_items, facturas_proveedores, ajustes_inventario,
                       alertas_stock>>

obtener_categorias ==
    /\ Idle
    /\ \E token \in EndpointTokens("inventario.productos.leer") :
        LET dep == require_permission("inventario.productos.leer", token)
            current_user == dep.user
            tenant == get_cliente_id_from_token(current_user)
            cliente_id == tenant.value
            query == {c \in categorias_productos : c.cliente_id = cliente_id}
            out == IF dep.status # 200 THEN Rejected(dep)
                   ELSE IF tenant.status # 200
                   THEN Raised(403, "no-tenant-in-handler", current_user, NULL)
                   ELSE Answered(200, "list", current_user, cliente_id, query)
        IN
        /\ req' = Request("obtener_categorias", token, "inventario.productos.leer", NoArg)
        /\ resp' = out
        /\ UNCHANGED <<clientVars, adminTables, comprasTables>>

crear_producto ==
    /\ Idle
    /\ \E token \in EndpointTokens("inventario.productos.crear"),
          codigo_producto \in Codigos,
          categoria_id \in {NULL, CategoriaIds[1]},
          proveedor_id \in {NULL, ProveedorIds[1]} :
        LET dep == require_permission("inventario.productos.crear", token)
            current_user == dep.user
            tenant == get_cliente_id_from_token(current_user)
            cliente_id == tenant.value
            db_producto == [id |-> NewId(ProductoIds, productos),
                            cliente_id |-> cliente_id,
                            codigo_producto |-> codigo_producto,
                            categoria_id |-> categoria_id,
                            proveedor_id |-> proveedor_id,
                            estado |-> "activo"]
            out == IF dep.status # 200 THEN Rejected(dep)
                   ELSE IF tenant.status # 200
                   THEN Raised(403, "no-tenant-in-handler", current_user, NULL)
                   ELSE IF \E k \in productos :
                              /\ k.cliente_id = cliente_id
                              /\ k.codigo_producto = codigo_producto
                   THEN Raised(400, "duplicate", current_user, cliente_id)
                   ELSE IF \/ ~Exists(clientes, cliente_id)
                           \/ ~FkOk(categorias_productos, categoria_id)
                           \/ ~FkOk(proveedores, proveedor_id)
                   THEN Raised(400, "integrity", current_user, cliente_id)
                   ELSE Answered(201, "created", current_user, cliente_id, {db_producto})
        IN
        /\ out.status = 201 => ComprasRows < MaxRows
        /\ req' = Request("crear_producto", token, "inventario.productos.crear",
                          [codigo |-> codigo_producto, categoria_id |-> categoria_id,
                           proveedor_id |-> proveedor_id])
        /\ resp' = out
        /\ productos' = IF out.status = 201 THEN productos \cup {db_producto}
                        ELSE productos
        /\ UNCHANGED <<clientVars, adminTables, proveedores, categorias_productos, ordenes_compra,
                       ordenes_compra_items, facturas_proveedores, ajustes_inventario,
                       alertas_stock>>

obtener_productos ==
    /\ Idle
    /\ \E token \in EndpointTokens("inventario.productos.leer"),
          categoria_id \in {NULL, CategoriaIds[1]},
          proveedor_id \in {NULL, ProveedorIds[1]},
          estado \in {NULL, "activo"} :
        LET dep == require_permission("inventario.productos.leer", token)
            current_user == dep.user
            tenant == get_cliente_id_from_token(current_user)
            cliente_id == tenant.value
            query == {k \in productos :
                        /\ k.cliente_id = cliente_id
                        /\ (Truthy(categoria_id) => k.categoria_id = categoria_id)
                        /\ (Truthy(proveedor_id) => k.proveedor_id = proveedor_id)
                        /\ (Truthy(estado) => k.estado = estado)}
            out == IF dep.status # 200 THEN Rejected(dep)
                   ELSE IF tenant.status # 200
                   THEN Raised(403, "no-tenant-in-handler", current_user, NULL)
                   ELSE Answered(200, "list", current_user, cliente_id, query)
        IN
        /\ req' = Request("obtener_productos", token, "inventario.productos.leer",
                          [categoria_id |-> categoria_id, proveedor_id |-> proveedor_id,
                           estado |-> estado])
        /\ resp' = out
        /\ UNCHANGED <<clientVars, adminTables, comprasTables>>

\* obtener_producto looking the row up by id alone
obtener_producto_by_id_only ==
    /\ Idle
    /\ \E token \in EndpointTokens("inventario.productos.leer"),
          producto_id \in {ProductoIds[1], ProductoIds[2]} :
        LET dep == require_permission("inventario.productos.leer", token)
            current_user == dep.user
            tenant == get_cliente_id_from_token(current_user)
            cliente_id == tenant.value
            found == {k \in productos : k.id = producto_id}
            out == IF dep.status # 200 THEN Rejected(dep)
                   ELSE IF tenant.status # 200
                   THEN Raised(403, "no-tenant-in-handler", current_user, NULL)
                   ELSE IF found = {}
                   THEN Raised(404, "not-found", current_user, cliente_id)
                   ELSE Answered(200, "row", current_user, cliente_id, found)
        IN
        /\ req' = Request("obtener_producto", token, "inventario.productos.leer",
                          [id |-> producto_id])
        /\ resp' = out
        /\ UNCHANGED <<clientVars, adminTables, comprasTables>>

obtener_producto ==
    /\ Idle
    /\ \E token \in EndpointTokens("inventario.productos.leer"),
          producto_id \in {ProductoIds[1], ProductoIds[2]} :
        LET dep == require_permission("inventario.productos.leer", token)
            current_user == dep.user
            tenant == get_cliente_id_from_token(current_user)
            cliente_id == tenant.value
            found == {k \in productos :
                        k.id = producto_id /\ k.cliente_id = cliente_id}
            out == IF dep.status # 200 THEN Rejected(dep)
                   ELSE IF tenant.status # 200
                   THEN Raised(403, "no-tenant-in-handler", current_user, NULL)
                   ELSE IF found = {}
                   THEN Raised(404, "not-found", current_user, cliente_id)
                   ELSE Answered(200, "row", current_user, cliente_id, found)
        IN
        /\ req' = Request("obtener_producto", token, "inventario.productos.leer",
                          [id |-> producto_id])
        /\ resp' = out
        /\ UNCHANGED <<clientVars, adminTables, comprasTables>>

crear_orden_compra ==
    /\ Idle
    /\ \E token \in EndpointTokens("compras.crear"), numero_orden \in Codigos,
          proveedor_id \in {ProveedorIds[1], ProveedorIds[2]} :
        LET dep == require_permission("compras.crear", token)
            current_user == dep.user
            tenant == get_cliente_id_from_token(current_user)
            cliente_id == tenant.value
            db_orden == [id |-> NewId(OrdenIds, ordenes_compra),
                         cliente_id |-> cliente_id,
                         numero_orden |-> numero_orden,
                         proveedor_id |-> proveedor_id,
                         usuario_creador_id |-> current_user.user_id,
                         estado |-> "pendiente"]
            out == IF dep.status # 200 THEN Rejected(dep)
                   ELSE IF tenant.status # 200
                   THEN Raised(403, "no-tenant-in-handler", current_user, NULL)
                   ELSE IF \E o \in ordenes_compra :
                              o.cliente_id = cliente_id /\ o.numero_orden = numero_orden
                   THEN Raised(400, "duplicate", current_user, cliente_id)
                   ELSE IF \/ ~Exists(clientes, cliente_id)
                           \/ ~Exists(proveedores, proveedor_id)
                           \/ ~Exists(usuarios, current_user.user_id)
                   THEN Raised(400, "integrity", current_user, cliente_id)
                   ELSE Answered(201, "created", current_user, cliente_id, {db_orden})
        IN
        /\ out.status = 201 => ComprasRows < MaxRows
        /\ req' = Request("crear_orden_compra", token, "compras.crear",
                          [numero |-> numero_orden, proveedor_id |-> proveedor_id])
        /\ resp' = out
        /\ ordenes_compra' = IF out.status = 201 THEN ordenes_compra \cup {db_orden}
                             ELSE ordenes_compra
        /\ UNCHANGED <<clientVars, adminTables, proveedores, categorias_productos, productos,
                       ordenes_compra_items, facturas_proveedores, ajustes_inventario,
                       alertas_stock>>

\* item_data.impuestos is read before the INSERT, but OrdenCompraItemCreate has
\* no such field: AttributeError, which the except clause (IntegrityError)
\* does not catch
agregar_item_orden_compra ==
    /\ Idle
    /\ \E token \in EndpointTokens("compras.crear"),
          orden_id \in {OrdenIds[1], OrdenIds[2]},
          producto_id \in {ProductoIds[1], ProductoIds[2]} :
        LET dep == require_permission("compras.crear", token)
            current_user == dep.user
            tenant == get_cliente_id_from_token(current_user)
            cliente_id == tenant.value
            orden == {o \in ordenes_compra :
                        o.id = orden_id /\ o.cliente_id = cliente_id}
            producto == {k \in productos :
                           k.id = producto_id /\ k.cliente_id = cliente_id}
            out == IF dep.status # 200 THEN Rejected(dep)
                   ELSE IF tenant.status # 200
                   THEN Raised(403, "no-tenant-in-handler", current_user, NULL)
                   ELSE IF orden = {}
                   THEN Raised(404, "orden-not-found", current_user, cliente_id)
                   ELSE IF producto = {}
                   THEN Raised(404, "producto-not-found", current_user, cliente_id)
                   ELSE Raised(500, "AttributeError", current_user, cliente_id)
        IN
        /\ req' = Request("agregar_item_orden_compra", token, "compras.crear",
                          [orden_id |-> orden_id, producto_id |-> producto_id])
        /\ resp' = out
        /\ UNCHANGED <<clientVars, adminTables, comprasTables>>

obtener_ordenes_compra ==
    /\ Idle
    /\ \E token \in EndpointTokens("compras.leer"),
          estado \in {NULL, "pendiente"},
          proveedor_id \in {NULL, ProveedorIds[1]} :
        LET dep == require_permission("compras.leer", token)
            current_user == dep.user
            tenant == get_cliente_id_from_token(current_user)
            cliente_id == tenant.value
            query == {o \in ordenes_compra :
                        /\ o.cliente_id = cliente_id
                        /\ (Truthy(estado) => o.estado = estado)
                        /\ (Truthy(proveedor_id) => o.proveedor_id = proveedor_id)}
            out == IF dep.status # 200 THEN Rejected(dep)
                   ELSE IF tenant.status # 200
                   THEN Raised(403, "no-tenant-in-handler", current_user, NULL)
                   ELSE Answered(200, "list", current_user, cliente_id, query)
        IN
        /\ req' = Request("obtener_ordenes_compra", token, "compras.leer",
                          [estado |-> estado, proveedor_id |-> proveedor_id])
        /\ resp' = out
        /\ UNCHANGED <<clientVars, adminTables, comprasTables>>

\* factura_data.subtotal is read to build the row, but FacturaProveedorCreate has
\* no such field: AttributeError, not caught by the except clause
crear_factura_proveedor ==
    /\ Idle
    /\ \E token \in EndpointTokens("compras.crear"), numero_factura \in Codigos,
          proveedor_id \in {ProveedorIds[1], ProveedorIds[2]} :
        LET dep == require_permission("compras.crear", token)
            current_user == dep.user
            tenant == get_cliente_id_from_token(current_user)
            cliente_id == tenant.value
            out == IF dep.status # 200 THEN Rejected(dep)
                   ELSE IF tenant.status # 200
                   THEN Raised(403, "no-tenant-in-handler", current_user, NULL)
                   ELSE IF \E f \in facturas_proveedores :
                              /\ f.cliente_id = cliente_id
                              /\ f.proveedor_id = proveedor_id
                              /\ f.numero_factura = numero_factura
                   THEN Raised(400, "duplicate", current_user, cliente_id)
                   ELSE Raised(500, "AttributeError", current_user, cliente_id)
        IN
        /\ req' = Request("crear_factura_proveedor", token, "compras.crear",
                          [numero |-> numero_factura, proveedor_id |-> proveedor_id])
        /\ resp' = out
        /\ UNCHANGED <<clientVars, adminTables, comprasTables>>

obtener_facturas_proveedores ==
    /\ Idle
    /\ \E token \in EndpointTokens("compras.leer"),
          estado \in {NULL, "pendiente"},
          proveedor_id \in {NULL, ProveedorIds[1]} :
        LET dep == require_permission("compras.leer", token)
            current_user == dep.user
            tenant == get_cliente_id_from_token(current_user)
            cliente_id == tenant.value
            query == {f \in facturas_proveedores :
                        /\ f.cliente_id = cliente_id
                        /\ (Truthy(estado) => f.estado = estado)
                        /\ (Truthy(proveedor_id) => f.proveedor_id = proveedor_id)}
            out == IF dep.status # 200 THEN Rejected(dep)
                   ELSE IF tenant.status # 200
                   THEN Raised(403, "no-tenant-in-handler", current_user, NULL)
                   ELSE Answered(200, "list", current_user, cliente_id, query)
        IN
        /\ req' = Request("obtener_facturas_proveedores", token, "compras.leer",
                          [estado |-> estado, proveedor_id |-> proveedor_id])
        /\ resp' = out
        /\ UNCHANGED <<clientVars, adminTables, comprasTables>>

crear_ajuste_inventario ==
    /\ Idle
    /\ \E token \in EndpointTokens("inventario.productos.actualizar"),
          numero_ajuste \in Codigos :
        LET dep == require_permission("inventario.productos.actualizar", token)
            current_user == dep.user
            tenant == get_cliente_id_from_token(current_user)
            cliente_id == tenant.value
            db_ajuste == [id |-> NewId(AjusteIds, ajustes_inventario),
                          cliente_id |-> cliente_id,
                          numero_ajuste |-> numero_ajuste,
                          tipo_ajuste |-> "entrada",
                          usuario_creador_id |-> current_user.user_id,
                          estado |-> "pendiente"]
            out == IF dep.status # 200 THEN Rejected(dep)
                   ELSE IF tenant.status # 200
                   THEN Raised(403, "no-tenant-in-handler", current_user, NULL)
                   ELSE IF \E j \in ajustes_inventario :
                              j.cliente_id = cliente_id /\ j.numero_ajuste = numero_ajuste
                   THEN Raised(400, "duplicate", current_user, cliente_id)
                   ELSE IF \/ ~Exists(clientes, cliente_id)
                           \/ ~Exists(usuarios, current_user.user_id)
                   THEN Raised(400, "integrity", current_user, cliente_id)
                   ELSE Answered(201, "created", current_user, cliente_id, {db_ajuste})
        IN
        /\ out.status = 201 => ComprasRows < MaxRows
        /\ req' = Request("crear_ajuste_inventario", token,
                          "inventario.productos.actualizar", [numero |-> numero_ajuste])
        /\ resp' = out
        /\ ajustes_inventario' =
              IF out.status = 201 THEN ajustes_inventario \cup {db_ajuste}
              ELSE ajustes_inventario
        /\ UNCHANGED <<clientVars, adminTables, proveedores, categorias_productos, productos,
                       ordenes_compra, ordenes_compra_items, facturas_proveedores,
                       alertas_stock>>

obtener_ajustes_inventario ==
    /\ Idle
    /\ \E token \in EndpointTokens("inventario.productos.leer"),
          estado \in {NULL, "pendiente"},
          tipo_ajuste \in {NULL, "salida"} :
        LET dep == require_permission("inventario.productos.leer", token)
            current_user == dep.user
            tenant == get_cliente_id_from_token(current_user)
            cliente_id == tenant.value
            query == {j \in ajustes_inventario :
                        /\ j.cliente_id = cliente_id
                        /\ (Truthy(estado) => j.estado = estado)
                        /\ (Truthy(tipo_ajuste) => j.tipo_ajuste = tipo_ajuste)}
            out == IF dep.status # 200 THEN Rejected(dep)
                   ELSE IF tenant.status # 200
                   THEN Raised(403, "no-tenant-in-handler", current_user, NULL)
                   ELSE Answered(200, "list", current_user, cliente_id, query)
        IN
        /\ req' = Request("obtener_ajustes_inventario", token,
                          "inventario.productos.leer",
                          [estado |-> estado, tipo_ajuste |-> tipo_ajuste])
        /\ resp' = out
        /\ UNCHANGED <<clientVars, adminTables, comprasTables>>

\* the query parameter leida: absent, "true" or "false"
obtener_alertas_stock ==
    /\ Idle
    /\ \E token \in EndpointTokens("inventario.productos.leer"),
          leida \in {NULL, "true", "false"},
          tipo_alerta \in {NULL, "stock_minimo"} :
        LET dep == require_permission("inventario.productos.leer", token)
            current_user == dep.user
            tenant == get_cliente_id_from_token(current_user)
            cliente_id == tenant.value
            query == {a \in alertas_stock :
                        /\ a.cliente_id = cliente_id
                        /\ (leida # NULL => a.leida = (leida = "true"))
                        /\ (Truthy(tipo_alerta) => a.tipo_alerta = tipo_alerta)}
            out == IF dep.status # 200 THEN Rejected(dep)
                   ELSE IF tenant.status # 200
                   THEN Raised(403, "no-tenant-in-handler", current_user, NULL)
                   ELSE Answered(200, "list", current_user, cliente_id, query)
        IN
        /\ req' = Request("obtener_alertas_stock", token, "inventario.productos.leer",
                          [leida |-> leida, tipo_alerta |-> tipo_alerta])
        /\ resp' = out
        /\ UNCHANGED <<clientVars, adminTables, comprasTables>>

marcar_alerta_leida ==
    /\ Idle
    /\ \E token \in EndpointTokens("inventario.productos.leer"),
          alerta_id \in {"A1", "A2"} :
        LET dep == require_permission("inventario.productos.leer", token)
            current_user == dep.user
            tenant == get_cliente_id_from_token(current_user)
            cliente_id == tenant.value
            alerta == {a \in alertas_stock :
                         a.id = alerta_id /\ a.cliente_id = cliente_id}
            marked == {[a EXCEPT !.leida = TRUE] : a \in alerta}
            out == IF dep.status # 200 THEN Rejected(dep)
                   ELSE IF tenant.status # 200
                   THEN Raised(403, "no-tenant-in-handler", current_user, NULL)
                   ELSE IF alerta = {}
                   THEN Raised(404, "not-found", current_user, cliente_id)
                   ELSE Answered(200, "row", current_user, cliente_id, marked)
        IN
        /\ req' = Request("marcar_alerta_leida", token, "inventario.productos.leer",
                          [id |-> alerta_id])
        /\ resp' = out
        /\ alertas_stock' = IF out.status = 200
                            THEN (alertas_stock \ alerta) \cup marked
                            ELSE alertas_stock
        /\ UNCHANGED <<clientVars, adminTables, proveedores, categorias_productos, productos,
                       ordenes_compra, ordenes_compra_items, facturas_proveedores,
                       ajustes_inventario>>

NextCompras ==
    \/ crear_proveedor
    \/ obtener_proveedores
    \/ obtener_proveedor
    \/ crear_categoria
    \/ obtener_categorias
    \/ crear_producto
    \/ obtener_productos
    \/ obtener_producto
    \/ crear_orden_compra
    \/ agregar_item_orden_compra
    \/ obtener_ordenes_compra
    \/ crear_factura_proveedor
    \/ obtener_facturas_proveedores
    \/ crear_ajuste_inventario
    \/ obtener_ajustes_inventario
    \/ obtener_alertas_stock
    \/ marcar_alerta_leida
    \/ EndRequest

SpecCompras == Init /\ [][NextCompras]_vars

-----------------------------------------------------------------------------
(* routers/usuarios.py *)

\* a field the request body leaves unset (model_dump(exclude_unset=True))
UNSET == "<unset>"

UsuarioIds == <<"U3", "U4", "U5">>
NombresUsuario == {"admin_karumbe", "nuevo"}
UsuarioPathIds == {"U0", "U1", "U9"}
\* bodies of PUT /usuarios/{id}: fields left out are unset
UsuarioUpdates ==
    { [nombre_usuario |-> UNSET, nombre |-> "Nuevo Nombre"],
      [nombre_usuario |-> "admin_martillo", nombre |-> UNSET] }
\* setattr over model_dump(exclude_unset=True)
UsuarioUpdated(u, user_data) ==
    [u EXCEPT !.nombre_usuario = IF user_data.nombre_usuario = UNSET THEN @
                                 ELSE user_data.nombre_usuario,
              !.nombre = IF user_data.nombre = UNSET THEN @ ELSE user_data.nombre]

\* users added so far by crear_usuario
UsuariosCreados == Cardinality(usuarios) - Cardinality(InitUsuarios)

get_usuario_by_username_and_client(nombre_usuario, cliente_id) ==
    {u \in usuarios : u.nombre_usuario = nombre_usuario /\ u.cliente_id = cliente_id}

\* the INSERT of create_usuario: nombre_usuario is unique over all tenants and
\* cliente_id references clientes
create_usuario_integrity(user) ==
    /\ ~\E u \in usuarios : u.nombre_usuario = user.nombre_usuario
    /\ FkOk(clientes, user.cliente_id)

\* crear_usuario passing the payload's cliente_id on as it came
crear_usuario_keeps_payload ==
    /\ Idle
    /\ \E token \in AdminTokens("administracion.usuarios.crear"),
          nombre_usuario \in NombresUsuario,
          payload_cliente_id \in {"T1", "T2", "T3"} :
        LET dep == require_permission("administracion.usuarios.crear", token)
            current_user == dep.user
            user_data == [nombre_usuario |-> nombre_usuario,
                          cliente_id |-> payload_cliente_id]
            db_usuario == [id |-> UsuarioIds[UsuariosCreados + 1],
                           cliente_id |-> user_data.cliente_id,
                           nombre_usuario |-> user_data.nombre_usuario,
                           nombre |-> NULL,
                           estado |-> "activo",
                           contrasena_hash |-> SeedHash]
            out == IF dep.status # 200 THEN Rejected(dep)
                   ELSE IF get_usuario_by_username_and_client(
                              user_data.nombre_usuario, user_data.cliente_id) # {}
                   THEN Raised(400, "duplicate", current_user, current_user.cliente_id)
                   ELSE IF ~create_usuario_integrity(user_data)
                   THEN Raised(400, "integrity", current_user, current_user.cliente_id)
                   ELSE Answered(201, "created", current_user, current_user.cliente_id,
                                 {db_usuario})
        IN
        /\ out.status = 201 => UsuariosCreados < MaxUsuarios
        /\ req' = Request("crear_usuario", token, "administracion.usuarios.crear",
                          [nombre_usuario |-> nombre_usuario,
                           cliente_id |-> payload_cliente_id])
        /\ resp' = out
        /\ usuarios' = IF out.status = 201 THEN usuarios \cup {db_usuario} ELSE usuarios
        /\ UNCHANGED <<clientVars, clientes, contactos_clientes, roles, permisos_roles,
                       roles_usuarios, comprasTables>>

crear_usuario ==
    /\ Idle
    /\ \E token \in AdminTokens("administracion.usuarios.crear"),
          nombre_usuario \in NombresUsuario,
          payload_cliente_id \in {"T1", "T2", "T3"} :
        LET dep == require_permission("administracion.usuarios.crear", token)
            current_user == dep.user
            \* user_data.cliente_id = current_user.cliente_id unless that is None
            user_data == [nombre_usuario |-> nombre_usuario,
                          cliente_id |-> IF current_user.cliente_id = NULL
                                         THEN payload_cliente_id
                                         ELSE current_user.cliente_id]
            db_usuario == [id |-> UsuarioIds[UsuariosCreados + 1],
                           cliente_id |-> user_data.cliente_id,
                           nombre_usuario |-> user_data.nombre_usuario,
                           nombre |-> NULL,
                           estado |-> "activo",
                           contrasena_hash |-> SeedHash]
            out == IF dep.status # 200 THEN Rejected(dep)
                   ELSE IF get_usuario_by_username_and_client(
                              user_data.nombre_usuario, user_data.cliente_id) # {}
                   THEN Raised(400, "duplicate", current_user, current_user.cliente_id)
                   ELSE IF ~create_usuario_integrity(user_data)
                   THEN Raised(400, "integrity", current_user, current_user.cliente_id)
                   ELSE Answered(201, "created", current_user, current_user.cliente_id,
                                 {db_usuario})
        IN
        /\ out.status = 201 => UsuariosCreados < MaxUsuarios
        /\ req' = Request("crear_usuario", token, "administracion.usuarios.crear",
                          [nombre_usuario |-> nombre_usuario,
                           cliente_id |-> payload_cliente_id])
        /\ resp' = out
        /\ usuarios' = IF out.status = 201 THEN usuarios \cup {db_usuario} ELSE usuarios
        /\ UNCHANGED <<clientVars, clientes, contactos_clientes, roles, permisos_roles,
                       roles_usuarios, comprasTables>>

leer_usuarios ==
    /\ Idle
    /\ \E token \in AdminTokens("administracion.usuarios.leer") :
        LET dep == require_permission("administracion.usuarios.leer", token)
            current_user == dep.user
            query == IF current_user.cliente_id # NULL
                     THEN {u \in usuarios : u.cliente_id = current_user.cliente_id}
                     ELSE usuarios
            out == IF dep.status # 200 THEN Rejected(dep)
                   ELSE Answered(200, "list", current_user, current_user.cliente_id, query)
        IN
        /\ req' = Request("leer_usuarios", token, "administracion.usuarios.leer", NoArg)
        /\ resp' = out
        /\ UNCHANGED <<clientVars, adminTables, comprasTables>>

leer_usuario_por_id ==
    /\ Idle
    /\ \E token \in AdminTokens("administracion.usuarios.leer"),
          user_id \in UsuarioPathIds :
        LET dep == require_permission("administracion.usuarios.leer", token)
            current_user == dep.user
            db_user == {u \in usuarios : u.id = user_id}
            out == IF dep.status # 200 THEN Rejected(dep)
                   ELSE IF db_user = {}
                   THEN Raised(404, "not-found", current_user, current_user.cliente_id)
                   ELSE IF /\ current_user.cliente_id # NULL
                           /\ \E u \in db_user : u.cliente_id # current_user.cliente_id
                   THEN Raised(403, "other-tenant", current_user, current_user.cliente_id)
                   ELSE Answered(200, "row", current_user, current_user.cliente_id, db_user)
        IN
        /\ req' = Request("leer_usuario_por_id", token, "administracion.usuarios.leer",
                          [id |-> user_id])
        /\ resp' = out
        /\ UNCHANGED <<clientVars, adminTables, comprasTables>>

\* actualizar_usuario without the tenancy test
actualizar_usuario_no_tenancy ==
    /\ Idle
    /\ \E token \in AdminTokens("administracion.usuarios.actualizar"),
          user_id \in UsuarioPathIds, user_data \in UsuarioUpdates :
        LET dep == require_permission("administracion.usuarios.actualizar", token)
            current_user == dep.user
            db_user == {u \in usuarios : u.id = user_id}
            updated == {UsuarioUpdated(u, user_data) : u \in db_user}
            out == IF dep.status # 200 THEN Rejected(dep)
                   ELSE IF db_user = {}
                   THEN Raised(404, "not-found", current_user, current_user.cliente_id)
                   ELSE IF \E u \in usuarios \ db_user, v \in updated :
                              u.nombre_usuario = v.nombre_usuario
                   THEN Raised(500, "IntegrityError", current_user, current_user.cliente_id)
                   ELSE Answered(200, "row", current_user, current_user.cliente_id, updated)
        IN
        /\ req' = Request("actualizar_usuario", token,
                          "administracion.usuarios.actualizar",
                          [id |-> user_id, user_data |-> user_data])
        /\ resp' = out
        /\ usuarios' = IF out.status = 200 THEN (usuarios \ db_user) \cup updated
                       ELSE usuarios
        /\ UNCHANGED <<clientVars, clientes, contactos_clientes, roles, permisos_roles,
                       roles_usuarios, comprasTables>>

\* the UPDATE raises IntegrityError, which nothing catches, when the new
\* nombre_usuario is another user's
actualizar_usuario ==
    /\ Idle
    /\ \E token \in AdminTokens("administracion.usuarios.actualizar"),
          user_id \in UsuarioPathIds, user_data \in UsuarioUpdates :
        LET dep == require_permission("administracion.usuarios.actualizar", token)
            current_user == dep.user
            db_user == {u \in usuarios : u.id = user_id}
            updated == {UsuarioUpdated(u, user_data) : u \in db_user}
            out == IF dep.status # 200 THEN Rejected(dep)
                   ELSE IF db_user = {}
                   THEN Raised(404, "not-found", current_user, current_user.cliente_id)
                   ELSE IF /\ current_user.cliente_id # NULL
                           /\ \E u \in db_user : u.cliente_id # current_user.cliente_id
                   THEN Raised(403, "other-tenant", current_user, current_user.cliente_id)
                   ELSE IF \E u \in usuarios \ db_user, v \in updated :
                              u.nombre_usuario = v.nombre_usuario
                   THEN Raised(500, "IntegrityError", current_user, current_user.cliente_id)
                   ELSE Answered(200, "row", current_user, current_user.cliente_id, updated)
        IN
        /\ req' = Request("actualizar_usuario", token,
                          "administracion.usuarios.actualizar",
                          [id |-> user_id, user_data |-> user_data])
        /\ resp' = out
        /\ usuarios' = IF out.status = 200 THEN (usuarios \ db_user) \cup updated
                       ELSE usuarios
        /\ UNCHANGED <<clientVars, clientes, contactos_clientes, roles, permisos_roles,
                       roles_usuarios, comprasTables>>

desactivar_usuario ==
    /\ Idle
    /\ \E token \in AdminTokens("administracion.usuarios.eliminar"),
          user_id \in UsuarioPathIds :
        LET dep == require_permission("administracion.usuarios.eliminar", token)
            current_user == dep.user
            db_user == {u \in usuarios : u.id = user_id}
            updated == {[u EXCEPT !.estado = "inactivo"] : u \in db_user}
            out == IF dep.status # 200 THEN Rejected(dep)
                   ELSE IF db_user = {}
                   THEN Raised(404, "not-found", current_user, current_user.cliente_id)
                   ELSE IF /\ current_user.cliente_id # NULL
                           /\ \E u \in db_user : u.cliente_id # current_user.cliente_id
                   THEN Raised(403, "other-tenant", current_user, current_user.cliente_id)
                   ELSE Answered(204, "no-content", current_user,
                                 current_user.cliente_id, {})
        IN
        /\ req' = Request("desactivar_usuario", token,
                          "administracion.usuarios.eliminar", [id |-> user_id])
        /\ resp' = out
        /\ usuarios' = IF out.status = 204 THEN (usuarios \ db_user) \cup updated
                       ELSE usuarios
        /\ UNCHANGED <<clientVars, clientes, contactos_clientes, roles, permisos_roles,
                       roles_usuarios, comprasTables>>

-----------------------------------------------------------------------------
(* routers/roles.py *)

RoleIds == <<"R2", "R3", "R4">>
RolPathIds == {"R0", "R1", "R2"}
NombresRol == {"Cajero", SUPER_ADMIN_ROLE_NAME}
\* permiso_ids of a request: none, one permission of the catalogue, one
\* id that is no permission
PermisoIdLists == {{}, {"administracion.usuarios.leer"}, {"p?"}}
\* the optional permiso_ids of PUT /roles/{id}
PermisoIdOptions ==
    { [is_none |-> TRUE, ids |-> {}],
      [is_none |-> FALSE, ids |-> {"administracion.usuarios.leer"}],
      [is_none |-> FALSE, ids |-> {"p?"}] }

\* db.query(models.Permiso): the rows of table permisos
Permisos == tbl_permisos

\* roles added so far by create_rol and not deleted
RolesCreados == Cardinality({r \in roles : ~r.es_rol_sistema})

\* the id uuid4 gives the next row: the first of the pool no row has
FreshId(ids, table) ==
    ids[CHOOSE i \in 1..Len(ids) :
            /\ ~Exists(table, ids[i])
            /\ \A j \in 1..(i - 1) : Exists(table, ids[j])]

check_client_admin_or_super_admin(current_user) ==
    IF ~Truthy(current_user.cliente_id) THEN NULL ELSE current_user.cliente_id

read_all_permisos ==
    /\ Idle
    /\ \E token \in GlobalTokens :
        LET dep == get_current_user(token)
            out == IF dep.status # 200 THEN Rejected(dep)
                   ELSE Answered(200, "list", dep.user, NULL, Permisos)
        IN
        /\ req' = Request("read_all_permisos", token, NULL, NoArg)
        /\ resp' = out
        /\ UNCHANGED <<clientVars, adminTables, comprasTables>>

\* RolPermiso(rol_id=db_rol.id) is built before the flush gives db_rol its id:
\* with one permission or more the INSERT into permisos_roles carries a NULL
\* rol_id, the commit raises IntegrityError and nothing is stored
create_rol ==
    /\ Idle
    /\ \E token \in AdminTokens("administracion.roles.crear"),
          nombre \in NombresRol, permiso_ids \in PermisoIdLists :
        LET dep == require_permission("administracion.roles.crear", token)
            current_user == dep.user
            cliente_id == check_client_admin_or_super_admin(current_user)
            db_rol_existente == {r \in roles : r.nombre = nombre /\ r.cliente_id = cliente_id}
            permisos == {p \in Permisos : p.id \in permiso_ids}
            db_rol == [id |-> FreshId(RoleIds, roles), cliente_id |-> cliente_id,
                       nombre |-> nombre, es_rol_sistema |-> FALSE]
            out == IF dep.status # 200 THEN Rejected(dep)
                   ELSE IF /\ cliente_id = NULL
                           /\ ~\E role \in current_user.roles : role = SUPER_ADMIN_ROLE_NAME
                   THEN Raised(403, "no-tenant-in-handler", current_user, cliente_id)
                   ELSE IF db_rol_existente # {}
                   THEN Raised(400, "duplicate", current_user, cliente_id)
                   ELSE IF Cardinality(permisos) # Cardinality(permiso_ids)
                   THEN Raised(400, "invalid-permiso", current_user, cliente_id)
                   ELSE IF permisos # {} \/ ~FkOk(clientes, cliente_id)
                   THEN Raised(400, "integrity", current_user, cliente_id)
                   ELSE Answered(201, "created", current_user, cliente_id, {db_rol})
        IN
        /\ out.status = 201 => RolesCreados < MaxRoles
        /\ req' = Request("create_rol", token, "administracion.roles.crear",
                          [nombre |-> nombre, permiso_ids |-> permiso_ids])
        /\ resp' = out
        /\ roles' = IF out.status = 201 THEN roles \cup {db_rol} ELSE roles
        /\ UNCHANGED <<clientVars, clientes, contactos_clientes, usuarios, permisos_roles,
                       roles_usuarios, comprasTables>>

read_all_roles ==
    /\ Idle
    /\ \E token \in AdminTokens("administracion.roles.leer") :
        LET dep == require_permission("administracion.roles.leer", token)
            current_user == dep.user
            cliente_id == check_client_admin_or_super_admin(current_user)
            query == IF cliente_id = NULL THEN roles
                     ELSE {r \in roles : r.cliente_id = cliente_id}
            out == IF dep.status # 200 THEN Rejected(dep)
                   ELSE Answered(200, "list", current_user, cliente_id, query)
        IN
        /\ req' = Request("read_all_roles", token, "administracion.roles.leer", NoArg)
        /\ resp' = out
        /\ UNCHANGED <<clientVars, adminTables, comprasTables>>

read_rol ==
    /\ Idle
    /\ \E token \in AdminTokens("administracion.roles.leer"), rol_id \in RolPathIds :
        LET dep == require_permission("administracion.roles.leer", token)
            current_user == dep.user
            cliente_id == check_client_admin_or_super_admin(current_user)
            db_rol == {r \in roles : r.id = rol_id}
            out == IF dep.status # 200 THEN Rejected(dep)
                   ELSE IF db_rol = {}
                   THEN Raised(404, "not-found", current_user, cliente_id)
                   ELSE IF /\ cliente_id # NULL
                           /\ \E r \in db_rol : r.cliente_id # cliente_id
                   THEN Raised(403, "other-tenant", current_user, cliente_id)
                   ELSE Answered(200, "row", current_user, cliente_id, db_rol)
        IN
        /\ req' = Request("read_rol", token, "administracion.roles.leer", [id |-> rol_id])
        /\ resp' = out
        /\ UNCHANGED <<clientVars, adminTables, comprasTables>>

\* a DELETE on permisos_roles that matches no row
delete_RolPermiso_nothing(rol_id) == permisos_roles

\* db.query(RolPermiso).filter(RolPermiso.rol_id == rol_id).delete(): the
\* rows of permisos_roles that remain
delete_RolPermiso(rol_id) == {rp \in permisos_roles : rp.rol_id # rol_id}

\* a role looked up without regard to its es_rol_sistema flag
es_rol_sistema_ignored(db_rol) == FALSE

\* db_rol.es_rol_sistema of the row .first() returned
es_rol_sistema(db_rol) == \E r \in db_rol : r.es_rol_sistema

\* permiso_ids is Optional: NULL leaves the role's permissions as they are
update_rol ==
    /\ Idle
    /\ \E token \in AdminTokens("administracion.roles.actualizar"),
          rol_id \in RolPathIds, nombre \in {UNSET, "Administrador"},
          permiso_ids \in PermisoIdOptions :
        LET dep == require_permission("administracion.roles.actualizar", token)
            current_user == dep.user
            cliente_id == check_client_admin_or_super_admin(current_user)
            db_rol == {r \in roles : r.id = rol_id}
            updated == {IF nombre = UNSET THEN r ELSE [r EXCEPT !.nombre = nombre]
                        : r \in db_rol}
            permisos == {p \in Permisos : p.id \in permiso_ids.ids}
            out == IF dep.status # 200 THEN Rejected(dep)
                   ELSE IF db_rol = {}
                   THEN Raised(404, "not-found", current_user, cliente_id)
                   ELSE IF /\ cliente_id # NULL
                           /\ \E r \in db_rol : r.cliente_id # cliente_id
                   THEN Raised(403, "other-tenant", current_user, cliente_id)
                   ELSE IF es_rol_sistema(db_rol)
                   THEN Raised(403, "system-role", current_user, cliente_id)
                   ELSE IF /\ ~permiso_ids.is_none
                           /\ Cardinality(permisos) # Cardinality(permiso_ids.ids)
                   THEN Raised(400, "invalid-permiso", current_user, cliente_id)
                   ELSE Answered(200, "row", current_user, cliente_id, updated)
        IN
        /\ req' = Request("update_rol", token, "administracion.roles.actualizar",
                          [id |-> rol_id, nombre |-> nombre, permiso_ids |-> permiso_ids])
        /\ resp' = out
        /\ roles' = IF out.status = 200 THEN (roles \ db_rol) \cup updated ELSE roles
        /\ permisos_roles' =
              IF out.status = 200 /\ ~permiso_ids.is_none
              THEN delete_RolPermiso(rol_id)
                     \cup {[rol_id |-> rol_id, permiso_id |-> p.id] : p \in permisos}
              ELSE permisos_roles
        /\ UNCHANGED <<clientVars, clientes, contactos_clientes, usuarios, roles_usuarios,
                       comprasTables>>

\* roles_usuarios.rol_id references roles: the DELETE of a role a user still
\* holds raises IntegrityError, which nothing catches
delete_rol ==
    /\ Idle
    /\ \E token \in AdminTokens("administracion.roles.eliminar"),
          rol_id \in RolPathIds :
        LET dep == require_permission("administracion.roles.eliminar", token)
            current_user == dep.user
            cliente_id == check_client_admin_or_super_admin(current_user)
            db_rol == {r \in roles : r.id = rol_id}
            out == IF dep.status # 200 THEN Rejected(dep)
                   ELSE IF db_rol = {}
                   THEN Raised(404, "not-found", current_user, cliente_id)
                   ELSE IF /\ cliente_id # NULL
                           /\ \E r \in db_rol : r.cliente_id # cliente_id
                   THEN Raised(403, "other-tenant", current_user, cliente_id)
                   ELSE IF es_rol_sistema(db_rol)
                   THEN Raised(403, "system-role", current_user, cliente_id)
                   ELSE IF \E ur \in roles_usuarios : ur.rol_id = rol_id
                   THEN Raised(500, "IntegrityError", current_user, cliente_id)
                   ELSE Answered(204, "no-content", current_user, cliente_id, {})
        IN
        /\ req' = Request("delete_rol", token, "administracion.roles.eliminar",
                          [id |-> rol_id])
        /\ resp' = out
        /\ roles' = IF out.status = 204 THEN roles \ db_rol ELSE roles
        /\ permisos_roles' = IF out.status = 204
                             THEN delete_RolPermiso(rol_id)
                             ELSE permisos_roles
        /\ UNCHANGED <<clientVars, clientes, contactos_clientes, usuarios, roles_usuarios,
                       comprasTables>>

NextAdmin ==
    \/ crear_usuario
    \/ leer_usuarios
    \/ leer_usuario_por_id
    \/ actualizar_usuario
    \/ desactivar_usuario
    \/ read_all_permisos
    \/ create_rol
    \/ read_all_roles
    \/ read_rol
    \/ update_rol
    \/ delete_rol
    \/ EndRequest

SpecAdmin == Init /\ [][NextAdmin]_vars

-----------------------------------------------------------------------------
(* routers/clientes.py *)

ClienteIds == <<"T3", "T4", "T5">>
ClientePathIds == {"T1", "T2", "T3", "T9"}
Subdominios == {"karumbe", "nuevo"}
ContactoIds == <<"K1", "K2", "K3">>
Emails == {"a@x.py"}

ClientesCreados == Cardinality(clientes) - Cardinality(InitClientes)

\* the INSERT and commit of create_contacto; cliente_id references clientes
create_contacto(cliente_id, contacto) ==
    [id |-> NewId(ContactoIds, contactos_clientes), cliente_id |-> cliente_id,
     email |-> contacto.email]

create_cliente ==
    /\ Idle
    /\ \E token \in GlobalTokens, subdominio \in Subdominios :
        LET dep == check_super_admin_role(token)
            db_cliente_subdominio == {c \in clientes : c.subdominio = subdominio}
            db_cliente == [id |-> NewId(ClienteIds, clientes \ InitClientes),
                           subdominio |-> subdominio, estado |-> "activo"]
            out == IF dep.status # 200 THEN Rejected(dep)
                   ELSE IF db_cliente_subdominio # {}
                   THEN Raised(400, "duplicate", dep.user, NULL)
                   ELSE Answered(201, "created", dep.user, NULL, {db_cliente})
        IN
        /\ out.status = 201 => ClientesCreados < MaxClientes
        /\ req' = Request("create_cliente", token, NULL, [subdominio |-> subdominio])
        /\ resp' = out
        /\ clientes' = IF out.status = 201 THEN clientes \cup {db_cliente} ELSE clientes
        /\ UNCHANGED <<clientVars, contactos_clientes, usuarios, roles, permisos_roles,
                       roles_usuarios, comprasTables>>

leer_clientes ==
    /\ Idle
    /\ \E token \in GlobalTokens :
        LET dep == check_super_admin_role(token)
            out == IF dep.status # 200 THEN Rejected(dep)
                   ELSE Answered(200, "list", dep.user, NULL, clientes)
        IN
        /\ req' = Request("leer_clientes", token, NULL, NoArg)
        /\ resp' = out
        /\ UNCHANGED <<clientVars, adminTables, comprasTables>>

\* the path operation without its Depends(check_super_admin_role), as the
\* note at the head of the file describes it
leer_cliente_por_id_unprotected ==
    /\ Idle
    /\ \E token \in GlobalTokens, cliente_id \in ClientePathIds :
        LET db_cliente == {c \in clientes : c.id = cliente_id}
            out == IF db_cliente = {}
                   THEN Raised(404, "not-found", NoUser, NULL)
                   ELSE Answered(200, "row", NoUser, NULL, db_cliente)
        IN
        /\ req' = Request("leer_cliente_por_id", token, NULL, [id |-> cliente_id])
        /\ resp' = out
        /\ UNCHANGED <<clientVars, adminTables, comprasTables>>

leer_cliente_por_id ==
    /\ Idle
    /\ \E token \in GlobalTokens, cliente_id \in ClientePathIds :
        LET dep == check_super_admin_role(token)
            db_cliente == {c \in clientes : c.id = cliente_id}
            out == IF dep.status # 200 THEN Rejected(dep)
                   ELSE IF db_cliente = {}
                   THEN Raised(404, "not-found", dep.user, NULL)
                   ELSE Answered(200, "row", dep.user, NULL, db_cliente)
        IN
        /\ req' = Request("leer_cliente_por_id", token, NULL, [id |-> cliente_id])
        /\ resp' = out
        /\ UNCHANGED <<clientVars, adminTables, comprasTables>>

\* subdominio is unique: the UPDATE to another tenant's subdominio raises
\* IntegrityError, which nothing catches
actualizar_cliente ==
    /\ Idle
    /\ \E token \in GlobalTokens, cliente_id \in ClientePathIds,
          subdominio \in {UNSET, "karumbe"}, estado \in {UNSET, "activo"} :
        LET dep == check_super_admin_role(token)
            db_cliente == {c \in clientes : c.id = cliente_id}
            updated == {[c EXCEPT
                           !.subdominio = IF subdominio = UNSET THEN @ ELSE subdominio,
                           !.estado = IF estado = UNSET THEN @ ELSE estado]
                        : c \in db_cliente}
            out == IF dep.status # 200 THEN Rejected(dep)
                   ELSE IF db_cliente = {}
                   THEN Raised(404, "not-found", dep.user, NULL)
                   ELSE IF \E c \in clientes \ db_cliente, v \in updated :
                              c.subdominio = v.subdominio
                   THEN Raised(500, "IntegrityError", dep.user, NULL)
                   ELSE Answered(200, "row", dep.user, NULL, updated)
        IN
        /\ req' = Request("actualizar_cliente", token, NULL,
                          [id |-> cliente_id, subdominio |-> subdominio,
                           estado |-> estado])
        /\ resp' = out
        /\ clientes' = IF out.status = 200 THEN (clientes \ db_cliente) \cup updated
                       ELSE clientes
        /\ UNCHANGED <<clientVars, contactos_clientes, usuarios, roles, permisos_roles,
                       roles_usuarios, comprasTables>>

desactivar_cliente ==
    /\ Idle
    /\ \E token \in GlobalTokens, cliente_id \in ClientePathIds :
        LET dep == check_super_admin_role(token)
            db_cliente == {c \in clientes : c.id = cliente_id}
            updated == {[c EXCEPT !.estado = "suspendido"] : c \in db_cliente}
            out == IF dep.status # 200 THEN Rejected(dep)
                   ELSE IF db_cliente = {}
                   THEN Raised(404, "not-found", dep.user, NULL)
                   ELSE Answered(204, "no-content", dep.user, NULL, {})
        IN
        /\ req' = Request("desactivar_cliente", token, NULL, [id |-> cliente_id])
        /\ resp' = out
        /\ clientes' = IF out.status = 204 THEN (clientes \ db_cliente) \cup updated
                       ELSE clientes
        /\ UNCHANGED <<clientVars, contactos_clientes, usuarios, roles, permisos_roles,
                       roles_usuarios, comprasTables>>

add_contacto_to_cliente ==
    /\ Idle
    /\ \E token \in GlobalTokens, cliente_id \in ClientePathIds, email \in Emails :
        LET dep == check_super_admin_role(token)
            db_cliente == {c \in clientes : c.id = cliente_id}
            db_contacto == create_contacto(cliente_id, [email |-> email])
            out == IF dep.status # 200 THEN Rejected(dep)
                   ELSE IF db_cliente = {}
                   THEN Raised(404, "not-found", dep.user, NULL)
                   ELSE Answered(201, "created", dep.user, NULL, {db_contacto})
        IN
        /\ out.status = 201 => Cardinality(contactos_clientes) < MaxContactos
        /\ req' = Request("add_contacto_to_cliente", token, NULL,
                          [id |-> cliente_id, email |-> email])
        /\ resp' = out
        /\ contactos_clientes' = IF out.status = 201
                                 THEN contactos_clientes \cup {db_contacto}
                                 ELSE contactos_clientes
        /\ UNCHANGED <<clientVars, clientes, usuarios, roles, permisos_roles, roles_usuarios,
                       comprasTables>>

get_contactos_by_cliente ==
    /\ Idle
    /\ \E token \in GlobalTokens, cliente_id \in ClientePathIds :
        LET dep == check_super_admin_role(token)
            db_cliente == {c \in clientes : c.id = cliente_id}
            contactos == {k \in contactos_clientes : k.cliente_id = cliente_id}
            out == IF dep.status # 200 THEN Rejected(dep)
                   ELSE IF db_cliente = {}
                   THEN Raised(404, "not-found", dep.user, NULL)
                   ELSE Answered(200, "list", dep.user, NULL, contactos)
        IN
        /\ req' = Request("get_contactos_by_cliente", token, NULL, [id |-> cliente_id])
        /\ resp' = out
        /\ UNCHANGED <<clientVars, adminTables, comprasTables>>

NextClientes ==
    \/ create_cliente
    \/ leer_clientes
    \/ leer_cliente_por_id
    \/ actualizar_cliente
    \/ desactivar_cliente
    \/ add_contacto_to_cliente
    \/ get_contactos_by_cliente
    \/ EndRequest

SpecClientes == Init /\ [][NextClientes]_vars

-----------------------------------------------------------------------------
(* security.py: tokens in time *)

\* the clock counts ticks; expire.timestamp() is a float, while the exp test
\* of jwt.decode compares whole seconds
TicksPerSecond == 2
ACCESS_TOKEN_EXPIRE_MINUTES == 60

\* timedelta(minutes=m), in ticks
timedelta_minutes(m) == m * 60 * TicksPerSecond

\* expires_delta: None, or a timedelta of so many ticks
NoDelta == [is_none |-> TRUE, ticks |-> 0]
Delta(ticks) == [is_none |-> FALSE, ticks |-> ticks]
\* "if expires_delta:": None and timedelta(0) are falsy
TruthyDelta(expires_delta) == ~expires_delta.is_none /\ expires_delta.ticks # 0

SECRET_KEY == "SECRET_KEY"

\* the HS256 signature of the payload under a key: equal exactly when key and
\* payload are equal
Signature(key, payload) == [key |-> key, payload |-> payload]

\* to_encode.update({"exp": ...}): the claims of data, exp added or replaced
WithExp(data, expire) ==
    [k \in DOMAIN data \cup {"exp"} |-> IF k = "exp" THEN expire ELSE data[k]]

\* t is datetime.now(timezone.utc) at the call
create_access_token(data, expires_delta, t) ==
    LET expire == IF TruthyDelta(expires_delta)
                  THEN t + expires_delta.ticks
                  ELSE t + timedelta_minutes(ACCESS_TOKEN_EXPIRE_MINUTES)
        to_encode == WithExp(data, expire)
    IN [wellformed |-> TRUE, payload |-> to_encode,
        sig |-> Signature(SECRET_KEY, to_encode)]

\* int(x) of a timestamp: its whole seconds
Seconds(t) == t \div TicksPerSecond

\* jwt.decode(token, SECRET_KEY, algorithms=[ALGORITHM]) at time t: what it
\* finds in the token (structure, then signature, then exp < now in seconds)
jwt_decode(jwt, t) ==
    IF ~jwt.wellformed THEN "malformed"
    ELSE IF jwt.sig # Signature(SECRET_KEY, jwt.payload) THEN "badsig"
    ELSE IF Seconds(jwt.payload.exp) < Seconds(t) THEN "expired"
    ELSE "valid"

\* the bearer token of a request sent at time t
Bearer(jwt, t) == [form |-> jwt_decode(jwt, t), claims |-> jwt.payload]

\* claim sets handed to create_access_token
TokenClaims ==
    { [sub |-> "super_admin", user_id |-> "u0", cliente_id |-> NULL,
       roles |-> {SUPER_ADMIN_ROLE_NAME}, permisos |-> {}],
      [sub |-> "admin_karumbe", user_id |-> "u1", cliente_id |-> "t1",
       roles |-> {"Administrador"}, permisos |-> {"administracion.usuarios.leer"}],
      [sub |-> "x", user_id |-> "u2", cliente_id |-> "t2", roles |-> {},
       permisos |-> {}, exp |-> 1] }

\* ttls handed to create_access_token
Deltas ==
    { NoDelta, Delta(0), Delta(1), Delta(TicksPerSecond),
      Delta(timedelta_minutes(30)), Delta(timedelta_minutes(ACCESS_TOKEN_EXPIRE_MINUTES)) }

\* instants of issuance and of use
IssueInstants == {0, 1}
UseInstants ==
    { 0, 1, 2, 3, 4,
      timedelta_minutes(30) - 1, timedelta_minutes(30), timedelta_minutes(30) + 1,
      timedelta_minutes(30) + TicksPerSecond, timedelta_minutes(30) + TicksPerSecond + 1,
      timedelta_minutes(60) - 1, timedelta_minutes(60), timedelta_minutes(60) + 1,
      timedelta_minutes(60) + TicksPerSecond, timedelta_minutes(60) + TicksPerSecond + 1 }

\* what a holder without the key can make of a token: one claim or the expiry
\* altered under the old signature, a signature under another key, and a
\* string that is no token
Altered(jwt) ==
    { [jwt EXCEPT !.payload.roles = @ \cup {SUPER_ADMIN_ROLE_NAME, "x"}],
      [jwt EXCEPT !.payload.cliente_id = "t9"],
      [jwt EXCEPT !.payload.user_id = "u9"],
      [jwt EXCEPT !.payload.permisos = @ \cup {"compras.crear"}],
      [jwt EXCEPT !.payload.sub = "otro"],
      [jwt EXCEPT !.payload.exp = @ + timedelta_minutes(ACCESS_TOKEN_EXPIRE_MINUTES)],
      [jwt EXCEPT !.sig = Signature("otra clave", jwt.payload)],
      [jwt EXCEPT !.wellformed = FALSE] }

\* a call of create_access_token at time t
Call_create_access_token ==
    /\ Idle
    /\ \E data \in TokenClaims, expires_delta \in Deltas, t \in IssueInstants :
        /\ req' = Request("create_access_token", [form |-> "valid", claims |-> NoClaims],
                          NULL, [data |-> data, expires_delta |-> expires_delta,
                                 issued_at |-> t])
        /\ resp' = Answered(200, "returned", NoUser, NULL,
                            {create_access_token(data, expires_delta, t)})
        /\ UNCHANGED <<clientVars, adminTables, comprasTables>>

\* a call of decode_access_token at time t1 on a token issued at t0, as issued
\* or altered on the way
Call_decode_access_token ==
    /\ Idle
    /\ \E data \in TokenClaims, expires_delta \in Deltas, t0 \in IssueInstants,
          t1 \in UseInstants, altered \in BOOLEAN :
        /\ t0 <= t1
        /\ \E jwt \in IF altered
                      THEN Altered(create_access_token(data, expires_delta, t0))
                      ELSE {create_access_token(data, expires_delta, t0)} :
            /\ req' = Request("decode_access_token", Bearer(jwt, t1), NULL,
                              [data |-> data, expires_delta |-> expires_delta,
                               issued_at |-> t0, at |-> t1, altered |-> altered,
                               jwt |-> jwt])
            /\ resp' = Answered(200, "returned", NoUser, NULL,
                                {decode_access_token(Bearer(jwt, t1))})
        /\ UNCHANGED <<clientVars, adminTables, comprasTables>>

NextToken ==
    \/ Call_create_access_token
    \/ Call_decode_access_token
    \/ EndRequest

SpecToken == Init /\ [][NextToken]_vars

-----------------------------------------------------------------------------
(* security.py: the password functions called *)

\* plaintexts: short ones and ones around the 72-byte boundary
Passwords ==
    { Password(ascii, wide) : ascii \in {0, 1, 5, 70, 71, 72, 73}, wide \in 0..2 }

Call_verify_password ==
    /\ Idle
    /\ \E plain_password \in Passwords, password \in Passwords, build \in Builds :
        LET hashed == get_password_hash(password, build) IN
        /\ req' = Request("verify_password", [form |-> "valid", claims |-> NoClaims],
                          NULL, [plain_password |-> plain_password,
                                 password |-> password, build |-> build])
        /\ resp' = Answered(200, "returned", NoUser, NULL,
                            {IF hashed.raised THEN "ValueError"
                             ELSE verify_password(plain_password, hashed, build)})
        /\ UNCHANGED <<clientVars, adminTables, comprasTables>>

NextPassword ==
    \/ Call_verify_password
    \/ EndRequest

SpecPassword == Init /\ [][NextPassword]_vars

-----------------------------------------------------------------------------
(* routers/auth.py: role and permission resolution, login *)

\* str(uuid): the text uuid.UUID reads back
str(id) ==
    CASE id = "T1" -> "t1"
      [] id = "T2" -> "t2"
      [] id = "U0" -> "u0"
      [] id = "U1" -> "u1"
      [] id = "U2" -> "u2"

\* [row[0] for row in query.all()]: one entry per row; a list is kept as its
\* values with the number of times each occurs (SQL fixes no order)
ListOf(rows, column) ==
    { [value |-> v, times |-> Cardinality({r \in rows : r[column] = v})] :
        v \in {r[column] : r \in rows} }
Values(list) == {e.value : e \in list}

\* db.query(UsuarioRole.rol_id).filter(UsuarioRole.usuario_id == user_id)
role_ids_of(user_id) ==
    {a.rol_id : a \in {x \in roles_usuarios : x.usuario_id = user_id}}

get_user_roles(user_id) ==
    LET role_ids == role_ids_of(user_id) IN
    IF role_ids = {} THEN {}
    ELSE ListOf({r \in roles : r.id \in role_ids}, "nombre")

\* get_user_permissions as a join of RolPermiso with Permiso, one row per link
get_user_permissions_joined(user_id) ==
    LET links == {l \in permisos_roles : l.rol_id \in role_ids_of(user_id)}
        rows == UNION {{[rol_id |-> l.rol_id, codigo |-> p.codigo] :
                          p \in {q \in Permisos : q.id = l.permiso_id}} : l \in links}
    IN ListOf(rows, "codigo")

get_user_permissions(user_id) ==
    LET permission_ids ==
            {l.permiso_id : l \in {x \in permisos_roles :
                                      x.rol_id \in role_ids_of(user_id)}}
    IN ListOf({p \in Permisos : p.id \in permission_ids}, "codigo")

\* authenticate_user: the user row, False, or the exception verify_password
\* raised; nombre_usuario is unique, so .first() has at most one row to pick
\* authenticate_user refusing a user who is not active or whose tenant is not
authenticate_user_active_only(username, password, build) ==
    LET found == {u \in usuarios :
                    /\ u.nombre_usuario = username
                    /\ u.estado = "activo"
                    /\ \A c \in clientes : c.id = u.cliente_id => c.estado = "activo"}
    IN
    IF found = {} THEN [result |-> "False", user |-> {}]
    ELSE LET user == CHOOSE u \in found : TRUE
             verified == verify_password(password, user.contrasena_hash, build)
         IN CASE verified = "True" -> [result |-> "user", user |-> {user}]
              [] verified = "False" -> [result |-> "False", user |-> {}]
              [] OTHER -> [result |-> verified, user |-> {}]

authenticate_user(username, password, build) ==
    LET found == {u \in usuarios : u.nombre_usuario = username} IN
    IF found = {} THEN [result |-> "False", user |-> {}]
    ELSE LET user == CHOOSE u \in found : TRUE
             verified == verify_password(password, user.contrasena_hash, build)
         IN CASE verified = "True" -> [result |-> "user", user |-> {user}]
              [] verified = "False" -> [result |-> "False", user |-> {}]
              [] OTHER -> [result |-> verified, user |-> {}]

\* the data of the token without the user's tenant
token_data_without_tenant(user) ==
    [sub |-> user.nombre_usuario,
     user_id |-> str(user.id),
     cliente_id |-> NULL,
     roles |-> get_user_roles(user.id),
     permisos |-> get_user_permissions(user.id)]

\* the data login signs into the token
token_data(user) ==
    [sub |-> user.nombre_usuario,
     user_id |-> str(user.id),
     cliente_id |-> IF user.cliente_id # NULL THEN str(user.cliente_id) ELSE NULL,
     roles |-> get_user_roles(user.id),
     permisos |-> get_user_permissions(user.id)]

\* the body of login_for_access_token at time t: its response and the token
\* in it.  The HTTPException(401) is raised inside the try block and, like
\* any other exception, is caught by "except Exception" and raised again as
\* 500 with the text of the first
login(username, password, build, t) ==
    LET auth == authenticate_user(username, password, build) IN
    IF auth.result = "user"
    THEN LET user == CHOOSE u \in auth.user : TRUE
             data == token_data(user)
             access_token ==
                 create_access_token(
                     data, Delta(timedelta_minutes(ACCESS_TOKEN_EXPIRE_MINUTES)), t)
         IN [out |-> Answered(200, "token", NoUser, NULL,
                              {[access_token |-> access_token,
                                token_type |-> "bearer",
                                usuario |-> user.id,
                                roles |-> data.roles,
                                permisos |-> data.permisos]}),
             access_token |-> {access_token}]
    ELSE IF auth.result = "False"
    THEN [out |-> Answered(500, "Error interno: 401: Nombre de usuario o contraseña incorrectos",
                           NoUser, NULL, {}),
          access_token |-> {}]
    ELSE [out |-> Answered(500, "Error interno: password cannot be longer than 72 bytes",
                           NoUser, NULL, {}),
          access_token |-> {}]

Usernames == {"super_admin", "admin_karumbe", "admin_martillo", "nadie"}
LoginPasswords == {SeedPassword, Password(4, 0), Password(73, 0)}

login_for_access_token ==
    /\ Idle
    /\ \E username \in Usernames, password \in LoginPasswords, build \in Builds :
        LET r == login(username, password, build, now) IN
        /\ req' = Request("login_for_access_token", [form |-> "valid", claims |-> NoClaims],
                          NULL, [username |-> username, password |-> password,
                                 build |-> build])
        /\ resp' = r.out
        \* the client keeps the token of its last successful login
        /\ issued' = IF r.access_token # {} THEN r.access_token ELSE issued
        /\ UNCHANGED <<now, tx, tbl_permisos, adminTables, comprasTables>>

Call_get_user_roles ==
    /\ Idle
    /\ \E user_id \in {"U0", "U1", "U2"} :
        /\ req' = Request("get_user_roles", [form |-> "valid", claims |-> NoClaims],
                          NULL, [user_id |-> user_id])
        /\ resp' = Answered(200, "returned", NoUser, NULL, get_user_roles(user_id))
        /\ UNCHANGED <<clientVars, adminTables, comprasTables>>

Call_get_user_permissions ==
    /\ Idle
    /\ \E user_id \in {"U0", "U1", "U2"} :
        /\ req' = Request("get_user_permissions", [form |-> "valid", claims |-> NoClaims],
                          NULL, [user_id |-> user_id])
        /\ resp' = Answered(200, "returned", NoUser, NULL, get_user_permissions(user_id))
        /\ UNCHANGED <<clientVars, adminTables, comprasTables>>

\* database states of the login specification: the seeded users and roles, a
\* role "Administrador" of the second tenant, and every assignment of the
\* tenant roles to the tenant administrators and of two permissions to them
InitLogin ==
    /\ clientes = InitClientes
    /\ contactos_clientes = {}
    /\ usuarios = InitUsuarios
    /\ roles = InitRoles \cup {[id |-> "R2", cliente_id |-> "T2", nombre |-> "Administrador",
                                es_rol_sistema |-> FALSE]}
    /\ permisos_roles \in SUBSET
          { [rol_id |-> r, permiso_id |-> p] :
              r \in {"R1", "R2"},
              p \in {"administracion.usuarios.leer", "administracion.roles.leer"} }
    /\ \E held \in SUBSET { [usuario_id |-> "U1", rol_id |-> "R1"],
                            [usuario_id |-> "U2", rol_id |-> "R1"],
                            [usuario_id |-> "U2", rol_id |-> "R2"] } :
          roles_usuarios = {[usuario_id |-> "U0", rol_id |-> "R0"]} \cup held
    /\ proveedores = {}
    /\ categorias_productos = {}
    /\ productos = {}
    /\ ordenes_compra = {}
    /\ ordenes_compra_items = {}
    /\ facturas_proveedores = InitFacturas
    /\ ajustes_inventario = {}
    /\ alertas_stock = InitAlertas
    /\ req = NoRequest
    /\ resp = NoResponse
    /\ now = 0
    /\ issued = {}
    /\ tx = NoTx
    /\ tbl_permisos = InitPermisos

NextLogin ==
    \/ login_for_access_token
    \/ Call_get_user_roles
    \/ Call_get_user_permissions
    \/ EndRequest

SpecLogin == InitLogin /\ [][NextLogin]_vars

-----------------------------------------------------------------------------
(* A session: login, then requests with the token while time passes and     *)
(* roles and users change                                                    *)

\* the bearer token of a request sent with jwt at time t; the guards only test
\* membership in the roles and permisos lists (security.py 121-122,
\* security_dependencies.py 28-46), so the lists are read as sets
Sent(jwt, t) ==
    [form |-> jwt_decode(jwt, t),
     claims |-> [user_id |-> jwt.payload.user_id,
                 cliente_id |-> jwt.payload.cliente_id,
                 roles |-> Values(jwt.payload.roles),
                 permisos |-> Values(jwt.payload.permisos)]]

\* instants of a session: issuance, half the lifetime, the expiry of a token
\* issued at 0 and the second after it
SessionInstants == {0, timedelta_minutes(30), timedelta_minutes(60),
                    timedelta_minutes(60) + TicksPerSecond}

\* time passes between two requests
Tick ==
    /\ Idle
    /\ \E t \in SessionInstants : t > now /\ now' = t
    /\ UNCHANGED <<issued, tx, tbl_permisos, req, resp, adminTables, comprasTables>>

\* a request to an endpoint guarded by require_permission(permission_code),
\* sent with the token the client holds
Depends_require_permission_issued ==
    /\ Idle
    /\ \E jwt \in issued,
          permission_code \in {"administracion.usuarios.leer",
                               "administracion.roles.leer"} :
        /\ req' = Request("require_permission_issued", Sent(jwt, now), permission_code,
                          [jwt |-> jwt, at |-> now])
        /\ resp' = Depended(require_permission(permission_code, Sent(jwt, now)))
        /\ UNCHANGED <<clientVars, adminTables, comprasTables>>

\* the seeded database and a role of the first tenant that is not a system
\* role, held by the tenant's administrator
InitSesion ==
    /\ clientes = InitClientes
    /\ contactos_clientes = {}
    /\ usuarios = InitUsuarios
    /\ roles = InitRoles \cup {[id |-> "R2", cliente_id |-> "T1", nombre |-> "Cajero",
                                es_rol_sistema |-> FALSE]}
    /\ permisos_roles = InitPermisosRoles \cup
                        {[rol_id |-> "R2", permiso_id |-> "administracion.roles.leer"]}
    /\ roles_usuarios = InitRolesUsuarios \cup {[usuario_id |-> "U1", rol_id |-> "R2"]}
    /\ proveedores = {}
    /\ categorias_productos = {}
    /\ productos = {}
    /\ ordenes_compra = {}
    /\ ordenes_compra_items = {}
    /\ facturas_proveedores = InitFacturas
    /\ ajustes_inventario = {}
    /\ alertas_stock = InitAlertas
    /\ req = NoRequest
    /\ resp = NoResponse
    /\ now = 0
    /\ issued = {}
    /\ tx = NoTx
    /\ tbl_permisos = InitPermisos

NextSesion ==
    \/ login_for_access_token
    \/ Tick
    \/ Depends_require_permission_issued
    \/ update_rol
    \/ delete_rol
    \/ desactivar_usuario
    \/ EndRequest

SpecSesion == InitSesion /\ [][NextSesion]_vars

-----------------------------------------------------------------------------
(* update_rol beside concurrent readers: the handler statement by statement, *)
(* its writes held in the transaction of its session until db.commit()       *)

\* what the other sessions read of a table whose rows a transaction has
\* written but not committed, were every statement committed on its own
uncommitted_autocommit(table, written) == written

\* what the other sessions read of a table whose rows a transaction has
\* written but not committed (sessionmaker(autocommit=False)): the table
uncommitted(table, written) == table

InFlight == {"delete", "refill", "commit"}

\* roles.py 169-188: the guard, the lookup, the tenancy and system-role
\* tests, and setattr on the row (kept in the session: autoflush=False)
update_rol_begin ==
    /\ Idle
    /\ tx.pc \in {"none", "done"}
    /\ \E token \in AdminTokens("administracion.roles.actualizar"),
          rol_id \in RolPathIds, nombre \in {UNSET, "Administrador"},
          permiso_ids \in PermisoIdOptions :
        LET dep == require_permission("administracion.roles.actualizar", token)
            cliente_id == check_client_admin_or_super_admin(dep.user)
            db_rol == {r \in roles : r.id = rol_id}
            updated == {IF nombre = UNSET THEN r ELSE [r EXCEPT !.nombre = nombre]
                        : r \in db_rol}
            status == IF dep.status # 200 THEN dep.status
                      ELSE IF db_rol = {} THEN 404
                      ELSE IF /\ cliente_id # NULL
                              /\ \E r \in db_rol : r.cliente_id # cliente_id
                      THEN 403
                      ELSE IF es_rol_sistema(db_rol) THEN 403
                      ELSE 0
        IN tx' = [pc |-> IF status # 0 THEN "done"
                         ELSE IF permiso_ids.is_none THEN "commit" ELSE "delete",
                  status |-> status, rol_id |-> rol_id, nombre |-> nombre,
                  permiso_ids |-> permiso_ids,
                  old_roles |-> roles, old_links |-> permisos_roles,
                  roles |-> IF status = 0 THEN (roles \ db_rol) \cup updated ELSE roles,
                  links |-> permisos_roles]
    /\ UNCHANGED <<now, issued, tbl_permisos, req, resp, adminTables, comprasTables>>

\* roles.py 193: the DELETE of the role's RolPermiso rows, sent to the database
update_rol_delete ==
    /\ tx.pc = "delete"
    /\ LET written == {rp \in tx.links : rp.rol_id # tx.rol_id} IN
        /\ tx' = [tx EXCEPT !.pc = "refill", !.links = written]
        /\ permisos_roles' = uncommitted(permisos_roles, written)
    /\ UNCHANGED <<now, issued, tbl_permisos, req, resp, clientes, contactos_clientes, usuarios,
                   roles, roles_usuarios, comprasTables>>

\* roles.py 196-202: the permissions are looked up; an unknown id raises 400
\* and get_db closes the session, which rolls the transaction back; otherwise
\* the new rows are added to the session
update_rol_refill ==
    /\ tx.pc = "refill"
    /\ LET permisos == {p \in Permisos : p.id \in tx.permiso_ids.ids}
           written == tx.links \cup
                      {[rol_id |-> tx.rol_id, permiso_id |-> p.id] : p \in permisos}
       IN IF Cardinality(permisos) # Cardinality(tx.permiso_ids.ids)
          THEN /\ tx' = [tx EXCEPT !.pc = "done", !.status = 400,
                                   !.roles = tx.old_roles, !.links = tx.old_links]
               /\ permisos_roles' = tx.old_links
          ELSE /\ tx' = [tx EXCEPT !.pc = "commit", !.links = written]
               /\ permisos_roles' = uncommitted(permisos_roles, tx.links)
    /\ UNCHANGED <<now, issued, tbl_permisos, req, resp, clientes, contactos_clientes, usuarios,
                   roles, roles_usuarios, comprasTables>>

\* roles.py 204-206: db.commit() makes the row and its permissions visible
update_rol_commit ==
    /\ tx.pc = "commit"
    /\ tx' = [tx EXCEPT !.pc = "done", !.status = 200]
    /\ roles' = tx.roles
    /\ permisos_roles' = tx.links
    /\ UNCHANGED <<now, issued, tbl_permisos, req, resp, clientes, contactos_clientes, usuarios,
                   roles_usuarios, comprasTables>>

NextConcurrente ==
    \/ update_rol_begin
    \/ update_rol_delete
    \/ update_rol_refill
    \/ update_rol_commit
    \/ login_for_access_token
    \/ Call_get_user_permissions
    \/ EndRequest

SpecConcurrente == InitSesion /\ [][NextConcurrente]_vars

-----------------------------------------------------------------------------
(* routers/seed.py: the test-data load *)

\* db.merge(row) for each row of a table keyed by id: the row with that
\* primary key is updated, a row with a new key is inserted
Merge(table, rows) ==
    {t \in table : \A r \in rows : r.id # t.id} \cup rows

\* POST /cargar-datos-prueba, open to any caller: the existence test on the
\* first permission, then six stages, each a loop of db.merge and a
\* db.commit(); an exception rolls back the open stage only and answers 500
cargar_datos_prueba ==
    /\ Idle
    /\ LET permiso_existente == {p \in Permisos : p.id = primer_permiso_id}
           \* the unique index on clientes.subdominio refuses the flush of stage 2
           clientes_prueba_conflict ==
               \E c \in clientes, r \in InitClientes :
                   c.id # r.id /\ c.subdominio = r.subdominio
           \* the unique index on usuarios.nombre_usuario refuses that of stage 5
           usuarios_prueba_conflict ==
               \E u \in usuarios, r \in InitUsuarios :
                   u.id # r.id /\ u.nombre_usuario = r.nombre_usuario
           \* the stage whose commit raises, 0 when none does
           failed == IF clientes_prueba_conflict THEN 2
                     ELSE IF usuarios_prueba_conflict THEN 5
                     ELSE 0
           \* stage n was committed
           done(n) == permiso_existente = {} /\ (failed = 0 \/ n < failed)
           out == IF permiso_existente # {}
                  THEN Answered(200, "Datos ya cargados previamente", NoUser, NULL, {})
                  ELSE IF failed # 0
                  THEN Raised(500, "Error al cargar datos", NoUser, NULL)
                  ELSE Answered(200, "Seed de datos completado exitosamente",
                                NoUser, NULL, {})
       IN
       /\ req' = Request("cargar_datos_prueba", NoRequest.tok, NULL, NoArg)
       /\ resp' = out
       /\ tbl_permisos' = IF done(1) THEN Merge(tbl_permisos, InitPermisos)
                          ELSE tbl_permisos
       /\ clientes' = IF done(2) THEN Merge(clientes, InitClientes) ELSE clientes
       /\ roles' = IF done(3) THEN Merge(roles, InitRoles) ELSE roles
       /\ permisos_roles' = IF done(4) THEN permisos_roles \cup InitPermisosRoles
                            ELSE permisos_roles
       /\ usuarios' = IF done(5) THEN Merge(usuarios, InitUsuarios) ELSE usuarios
       /\ roles_usuarios' = IF done(6) THEN roles_usuarios \cup InitRolesUsuarios
                            ELSE roles_usuarios
       /\ UNCHANGED <<now, issued, tx, contactos_clientes, comprasTables>>

\* the schema just created, every table empty
InitSeed ==
    /\ clientes = {}
    /\ contactos_clientes = {}
    /\ usuarios = {}
    /\ roles = {}
    /\ permisos_roles = {}
    /\ roles_usuarios = {}
    /\ proveedores = {}
    /\ categorias_productos = {}
    /\ productos = {}
    /\ ordenes_compra = {}
    /\ ordenes_compra_items = {}
    /\ facturas_proveedores = {}
    /\ ajustes_inventario = {}
    /\ alertas_stock = {}
    /\ req = NoRequest
    /\ resp = NoResponse
    /\ now = 0
    /\ issued = {}
    /\ tx = NoTx
    /\ tbl_permisos = {}

NextSeed ==
    \/ cargar_datos_prueba
    \/ create_cliente
    \/ EndRequest

SpecSeed == InitSeed /\ [][NextSeed]_vars

-----------------------------------------------------------------------------
(* Login beside the deactivation of users and tenants *)

NextEstado ==
    \/ login_for_access_token
    \/ desactivar_usuario
    \/ desactivar_cliente
    \/ EndRequest

SpecEstado == Init /\ [][NextEstado]_vars

-----------------------------------------------------------------------------
(* Properties of the guards (SpecGuard) *)

Claims(token) == token.claims

\* the token decodes and get_current_user accepts its claims
Authenticated(token) == get_current_user(token).status = 200

\* the tenant id get_current_user reads from the token's cliente_id claim
TokenTenant(token) ==
    IF Truthy(Claims(token).cliente_id) THEN UUID(Claims(token).cliente_id) ELSE NULL

HasSuperAdmin(token) == SUPER_ADMIN_ROLE_NAME \in Claims(token).roles

\* C1: a token whose role list contains "Super Admin" is allowed by
\* require_permission(code) for every code, whatever its permission list and
\* whatever its tenant id (null included).
C1_SuperAdminBypass ==
    ( /\ req.op = "require_permission"
      /\ Authenticated(req.tok)
      /\ HasSuperAdmin(req.tok) )
    => resp.status = 200

\* a Super Admin without tenant and without the required code was allowed
C1_Witness ==
    /\ req.op = "require_permission"
    /\ Authenticated(req.tok)
    /\ HasSuperAdmin(req.tok)
    /\ TokenTenant(req.tok) = NULL
    /\ req.code \notin Claims(req.tok).permisos
    /\ resp.status = 200

\* C2: a token without "Super Admin" whose permission list lacks the required
\* code is denied with 403 missing-permission, also when it has no tenant id
\* (the permission test precedes the tenant test).
C2_MissingPermission ==
    ( /\ req.op = "require_permission"
      /\ Authenticated(req.tok)
      /\ ~HasSuperAdmin(req.tok)
      /\ req.code \notin Claims(req.tok).permisos )
    => (resp.status = 403 /\ resp.detail = "missing-permission")

\* a token with neither the code nor a tenant was denied for the missing code
C2_Witness ==
    /\ req.op = "require_permission"
    /\ Authenticated(req.tok)
    /\ ~HasSuperAdmin(req.tok)
    /\ req.code \notin Claims(req.tok).permisos
    /\ TokenTenant(req.tok) = NULL
    /\ resp.status = 403
    /\ resp.detail = "missing-permission"

\* C3: a token with a null tenant id and without "Super Admin" is denied with
\* 403 by every check require_permission builds, even when the required code
\* is in its permission list.
C3_NoTenantDenied ==
    ( /\ req.op = "require_permission"
      /\ Authenticated(req.tok)
      /\ ~HasSuperAdmin(req.tok)
      /\ TokenTenant(req.tok) = NULL )
    => resp.status = 403

\* a tenant-less token holding the required code was denied
C3_Witness ==
    /\ req.op = "require_permission"
    /\ Authenticated(req.tok)
    /\ ~HasSuperAdmin(req.tok)
    /\ TokenTenant(req.tok) = NULL
    /\ req.code \in Claims(req.tok).permisos
    /\ resp.status = 403
    /\ resp.detail = "no-tenant"

\* the token fails to decode, carries no user_id, or carries a user_id or a
\* cliente_id that is not a UUID
NotAcceptable(token) ==
    \/ token.form # "valid"
    \/ Claims(token).user_id = NULL
    \/ UUID(Claims(token).user_id) \in {"ValueError", "AttributeError"}
    \/ /\ Claims(token).cliente_id # NULL
       /\ UUID(Claims(token).cliente_id) \in {"ValueError", "AttributeError"}

\* C5: behind get_current_user (directly, through require_permission or through
\* check_super_admin_role) a token that fails to decode, has no user_id, or
\* has a user_id / cliente_id that is not a UUID is rejected with 401 and the
\* handler does not run.
C5_InvalidTokenIs401 ==
    ( /\ req.op \in {"get_current_user", "require_permission",
                     "check_super_admin_role"}
      /\ NotAcceptable(req.tok) )
    => (resp.status = 401 /\ ~resp.ran)

-----------------------------------------------------------------------------
(* Properties of the purchasing/inventory handlers (SpecCompras) *)

ComprasOps ==
    { "crear_proveedor", "obtener_proveedores", "obtener_proveedor",
      "crear_categoria", "obtener_categorias",
      "crear_producto", "obtener_productos", "obtener_producto",
      "crear_orden_compra", "agregar_item_orden_compra", "obtener_ordenes_compra",
      "crear_factura_proveedor", "obtener_facturas_proveedores",
      "crear_ajuste_inventario", "obtener_ajustes_inventario",
      "obtener_alertas_stock", "marcar_alerta_leida" }

\* C4: for a valid token with tenant id T and a permission list containing the
\* required code C, require_permission(C) allows, the handler receives the
\* token's claims unchanged, and the tenant scope the handler uses is T.
C4_TenantScopeIsTokenTenant ==
    ( /\ req.op \in ComprasOps
      /\ Authenticated(req.tok)
      /\ TokenTenant(req.tok) # NULL
      /\ req.code \in Claims(req.tok).permisos )
    => ( /\ resp.ran
         /\ resp.status \notin {401, 403}
         /\ resp.user.user_id = UUID(Claims(req.tok).user_id)
         /\ resp.user.cliente_id = TokenTenant(req.tok)
         /\ resp.user.roles = Claims(req.tok).roles
         /\ resp.user.permisos = Claims(req.tok).permisos
         /\ resp.scope = TokenTenant(req.tok) )

\* an operative user of tenant T2 listed T2's suppliers
C4_Witness ==
    /\ req.op = "obtener_proveedores"
    /\ Authenticated(req.tok)
    /\ ~HasSuperAdmin(req.tok)
    /\ req.code \in Claims(req.tok).permisos
    /\ TokenTenant(req.tok) = "T2"
    /\ resp.status = 200
    /\ resp.scope = "T2"
    /\ resp.body # {}

\* rows of the purchasing tables that a step inserted, changed or removed
Touched ==
    UNION { (t[1] \ t[2]) \cup (t[2] \ t[1]) :
              t \in { <<proveedores, proveedores'>>,
                      <<categorias_productos, categorias_productos'>>,
                      <<productos, productos'>>,
                      <<ordenes_compra, ordenes_compra'>>,
                      <<facturas_proveedores, facturas_proveedores'>>,
                      <<ajustes_inventario, ajustes_inventario'>>,
                      <<alertas_stock, alertas_stock'>> } }

\* C7: no cross-tenant leakage in the purchasing/inventory endpoints: every row
\* a list or read-by-id endpoint returns has the caller token's tenant id, every
\* row a create stores has it, and marcar_alerta_leida changes only an alert of
\* the caller's tenant.
C7_NoCrossTenantLeak ==
    [][ req'.op \in ComprasOps =>
          /\ \A row \in resp'.body : row.cliente_id = TokenTenant(req'.tok)
          /\ \A row \in Touched : row.cliente_id = TokenTenant(req'.tok) ]_vars

\* a product list was answered from a table that also holds another tenant's
\* product, and an alert was marked while another tenant's alert exists
C7_Witness ==
    /\ req.op \in {"obtener_productos", "obtener_producto"}
    /\ resp.status = 200
    /\ resp.body # {}
    /\ \E k \in productos : k.cliente_id # TokenTenant(req.tok)
    /\ \E a \in alertas_stock : a.leida

\* C9: a token of the seeded "super_admin" kind (no tenant id, role
\* "Super Admin", no permissions) reaches and completes the operation on every
\* permission-gated endpoint, the purchasing/inventory ones included: the
\* request does not end in 401 or 403.
C9_SuperAdminCompletes ==
    ( /\ req.op \in ComprasOps
      /\ Authenticated(req.tok)
      /\ HasSuperAdmin(req.tok)
      /\ TokenTenant(req.tok) = NULL
      /\ Claims(req.tok).permisos = {} )
    => resp.status \notin {401, 403}

-----------------------------------------------------------------------------
(* Properties of the tenant administration (SpecClientes) *)

ClientesOps ==
    { "create_cliente", "leer_clientes", "leer_cliente_por_id", "actualizar_cliente",
      "desactivar_cliente", "add_contacto_to_cliente", "get_contactos_by_cliente" }

-----------------------------------------------------------------------------
(* Properties of the user and role administration (SpecAdmin) *)

UsuarioRolOps ==
    { "crear_usuario", "leer_usuarios", "leer_usuario_por_id", "actualizar_usuario",
      "desactivar_usuario", "create_rol", "read_all_roles", "read_rol", "update_rol",
      "delete_rol" }

ByIdOps ==
    { "leer_usuario_por_id", "actualizar_usuario", "desactivar_usuario", "read_rol",
      "update_rol", "delete_rol" }

\* the table a by-id operation looks its row up in
TargetTable(op) ==
    IF op \in {"leer_usuario_por_id", "actualizar_usuario", "desactivar_usuario"}
    THEN usuarios ELSE roles

\* user and role rows the step inserted, changed or removed
TouchedAdmin ==
    ((usuarios \ usuarios') \cup (usuarios' \ usuarios))
      \cup ((roles \ roles') \cup (roles' \ roles))

C10_CreatedUserTenant ==
    (req.op = "crear_usuario" /\ resp.status = 201) =>
        \A row \in resp.body :
            /\ row \in usuarios
            /\ IF TokenTenant(req.tok) # NULL
               THEN row.cliente_id = TokenTenant(req.tok)
               ELSE /\ HasSuperAdmin(req.tok)
                    /\ row.cliente_id = req.arg.cliente_id

C10_Witness ==
    /\ req.op = "crear_usuario"
    /\ resp.status = 201
    /\ ~HasSuperAdmin(req.tok)
    /\ TokenTenant(req.tok) = "T1"
    /\ req.arg.cliente_id = "T2"
    /\ \E row \in resp.body : row \in usuarios /\ row.cliente_id = "T1"

-----------------------------------------------------------------------------
(* Properties of the tokens (SpecToken) *)

\* the expiry the caller asked for: issuance + ttl, the default of 60 minutes
\* when no ttl was given
AskedExpiry(arg) ==
    arg.issued_at + (IF arg.expires_delta.is_none
                     THEN timedelta_minutes(ACCESS_TOKEN_EXPIRE_MINUTES)
                     ELSE arg.expires_delta.ticks)

\* C12: decode_access_token(create_access_token(claims, ttl)) returns the
\* claims with exp added at every instant before issuance + ttl, and None at
\* every instant after issuance + ttl.
C12_RoundTripWithExpiry ==
    ( /\ req.op = "decode_access_token"
      /\ ~req.arg.altered
      /\ ~req.arg.expires_delta.is_none )
    => \A r \in resp.body :
          /\ req.arg.at < AskedExpiry(req.arg)
               => /\ ~r.is_none
                  /\ r.payload = WithExp(req.arg.data, AskedExpiry(req.arg))
          /\ req.arg.at > AskedExpiry(req.arg) => r.is_none

\* C13: decode_access_token returns, and returns the one value None, for a
\* string that is no token, for a token whose signature does not match its
\* content (any single claim altered after issuance) and for an expired token.
C13_DecodeNeverRaises ==
    ( /\ req.op = "decode_access_token"
      /\ \/ req.arg.altered
         \/ Seconds(req.arg.jwt.payload.exp) < Seconds(req.arg.at) )
    => /\ resp.status = 200
       /\ resp.body = {[is_none |-> TRUE, payload |-> NoClaims]}

C13_Witness ==
    /\ req.op = "decode_access_token"
    /\ req.arg.altered
    /\ req.arg.jwt.wellformed
    /\ req.arg.jwt.sig.key = SECRET_KEY
    /\ SUPER_ADMIN_ROLE_NAME \in req.arg.jwt.payload.roles
    /\ SUPER_ADMIN_ROLE_NAME \notin req.arg.data.roles
    /\ Seconds(req.arg.jwt.payload.exp) >= Seconds(req.arg.at)
    /\ resp.body = {[is_none |-> TRUE, payload |-> NoClaims]}

\* C14: create_access_token sets exp to issuance + ttl for every ttl the caller
\* gives, zero included, and to issuance + 60 minutes when none is given.
C14_ExpiryIsNowPlusTtl ==
    req.op = "create_access_token" =>
        \A jwt \in resp.body : jwt.payload.exp = AskedExpiry(req.arg)

-----------------------------------------------------------------------------
(* Properties of the password functions (SpecPassword) *)

\* C18: verify_password(P, get_password_hash(P)) is true for every plaintext
\* P, also when P is longer than 72 UTF-8 bytes and hashing drops a trailing
\* partial multi-byte character.
C18_VerifyOwnHash ==
    ( /\ req.op = "verify_password"
      /\ req.arg.plain_password = req.arg.password )
    => resp.body = {"True"}

-----------------------------------------------------------------------------
(* Properties of login and of the resolvers (SpecLogin) *)

\* the roles a user holds and the codes of the permissions linked to them
HeldRoles(user_id) ==
    {r \in roles : \E a \in roles_usuarios : a.usuario_id = user_id /\ a.rol_id = r.id}
LinkedCodes(user_id) ==
    {p.codigo : p \in {q \in Permisos :
                         \E r \in HeldRoles(user_id), l \in permisos_roles :
                            l.rol_id = r.id /\ l.permiso_id = q.id}}
UsernameExists(username) == \E u \in usuarios : u.nombre_usuario = username

\* C15: login does not reveal whether a username exists: a login that fails
\* for an existing username has the same outcome (status, body, no token, no
\* change of state) as a login with the same password for a username that
\* does not exist.
C15_LoginHidesUsernames ==
    [][ ( /\ req'.op = "login_for_access_token"
          /\ UsernameExists(req'.arg.username)
          /\ resp'.status # 200 )
        => /\ \A other \in Usernames :
                 ~UsernameExists(other)
                 => login(other, req'.arg.password, req'.arg.build, now).out = resp'
           /\ resp'.body = {}
           /\ issued' = issued
           /\ UNCHANGED <<adminTables, comprasTables>> ]_vars

\* C16: on a successful login the token's claims are exactly sub (the
\* username), user_id, cliente_id (null when the user has no tenant), roles
\* (the names of the roles the user holds in the database at that time) and
\* permisos (the codes linked to those roles), next to the expiry, and the
\* roles and permisos returned beside the token are those inside it.
C16_LoginClaims ==
    (req.op = "login_for_access_token" /\ resp.status = 200)
    => \A b \in resp.body :
          LET payload == b.access_token.payload
              user == CHOOSE u \in usuarios : u.nombre_usuario = req.arg.username
          IN /\ DOMAIN payload =
                   {"sub", "user_id", "cliente_id", "roles", "permisos", "exp"}
             /\ payload.sub = req.arg.username
             /\ UUID(payload.user_id) = user.id
             /\ IF user.cliente_id = NULL THEN payload.cliente_id = NULL
                ELSE UUID(payload.cliente_id) = user.cliente_id
             /\ Values(payload.roles) = {r.nombre : r \in HeldRoles(user.id)}
             /\ Values(payload.permisos) = LinkedCodes(user.id)
             /\ b.roles = payload.roles
             /\ b.permisos = payload.permisos

\* a tenant administrator holding a role with a permission has logged in
C16_Witness ==
    /\ req.op = "login_for_access_token"
    /\ req.arg.username = "admin_martillo"
    /\ resp.status = 200
    /\ \E b \in resp.body :
          /\ b.access_token.payload.cliente_id = "t2"
          /\ b.access_token.payload.permisos # {}
          /\ b.roles # {}

\* C17: get_user_permissions returns exactly the codes of the permissions
\* linked to at least one role the user holds, each once also when two of the
\* roles link it; get_user_roles returns exactly the names of the roles held,
\* one entry per role; without assignments both return the empty list.
C17_Resolvers ==
    /\ req.op = "get_user_permissions"
       => /\ resp.status = 200
          /\ Values(resp.body) = LinkedCodes(req.arg.user_id)
          /\ \A e \in resp.body : e.times = 1
    /\ req.op = "get_user_roles"
       => /\ resp.status = 200
          /\ Values(resp.body) = {r.nombre : r \in HeldRoles(req.arg.user_id)}
          /\ \A e \in resp.body :
                e.times = Cardinality({r \in HeldRoles(req.arg.user_id) :
                                          r.nombre = e.value})

\* the permissions of a user two of whose roles link the same permission
C17_Witness ==
    /\ req.op = "get_user_permissions"
    /\ \E r1, r2 \in HeldRoles(req.arg.user_id) :
          /\ r1 # r2
          /\ \E l1, l2 \in permisos_roles :
                /\ l1.rol_id = r1.id
                /\ l2.rol_id = r2.id
                /\ l1.permiso_id = l2.permiso_id
    /\ resp.body # {}

-----------------------------------------------------------------------------
(* Properties of a session (SpecSesion) *)

\* C11: a token issued by login is accepted by the guards with the roles,
\* permissions and tenant id it was issued with at every moment up to its
\* expiry, whatever update_rol, delete_rol and desactivar_usuario committed
\* since; the decision is determined by the token's claims and the time.
C11_TokenStaleness ==
    ( /\ req.op = "require_permission_issued"
      /\ req.arg.at <= req.arg.jwt.payload.exp )
    => LET payload == req.arg.jwt.payload
           tenant == IF payload.cliente_id = NULL THEN NULL
                     ELSE UUID(payload.cliente_id)
           allowed == \/ SUPER_ADMIN_ROLE_NAME \in Values(payload.roles)
                      \/ /\ req.code \in Values(payload.permisos)
                         /\ tenant # NULL
       IN /\ resp.status = IF allowed THEN 200 ELSE 403
          /\ allowed => /\ resp.user.user_id = UUID(payload.user_id)
                        /\ resp.user.cliente_id = tenant
                        /\ resp.user.roles = Values(payload.roles)
                        /\ resp.user.permisos = Values(payload.permisos)

\* at the instant its token expires a user is allowed by a permission that a
\* role update has taken from the user's role since, the user deactivated
C11_Witness ==
    /\ req.op = "require_permission_issued"
    /\ req.arg.jwt.payload.user_id = "u1"
    /\ req.arg.at = req.arg.jwt.payload.exp
    /\ req.code = "administracion.roles.leer"
    /\ req.code \notin LinkedCodes("U1")
    /\ \E u \in usuarios : u.id = "U1" /\ u.estado # "activo"
    /\ resp.status = 200

-----------------------------------------------------------------------------
(* Properties of the role endpoints (SpecAdmin) *)

\* C19: role names are unique within a tenant scope in every state reachable
\* by create_rol, update_rol and delete_rol: no two rows of roles have the
\* same cliente_id and nombre.
C19_RoleNamesUnique ==
    \A r1, r2 \in roles :
        (r1.cliente_id = r2.cliente_id /\ r1.nombre = r2.nombre) => r1 = r2

\* C20: system roles are immutable: no step changes or removes a row of roles
\* whose es_rol_sistema is true or the permisos_roles rows of such a role, and
\* update_rol and delete_rol on such a role answer 403 (401 or 403 when the
\* guard already refuses the token).
C20_SystemRolesImmutable ==
    [][ /\ \A r \in roles :
              r.es_rol_sistema
              => /\ r \in roles'
                 /\ {rp \in permisos_roles' : rp.rol_id = r.id}
                      = {rp \in permisos_roles : rp.rol_id = r.id}
        /\ ( /\ Idle
             /\ req'.op \in {"update_rol", "delete_rol"}
             /\ \E r \in roles : r.id = req'.arg.id /\ r.es_rol_sistema )
           => /\ resp'.status \in {401, 403}
              /\ resp'.ran => resp'.status = 403 ]_vars

\* a Super Admin without tenant has asked to rename a system role and replace
\* its permissions, and was refused because it is a system role
C20_Witness ==
    /\ req.op = "update_rol"
    /\ req.arg.id = "R1"
    /\ req.arg.nombre # UNSET
    /\ ~req.arg.permiso_ids.is_none
    /\ Claims(req.tok).cliente_id = NULL
    /\ resp.status = 403
    /\ resp.detail = "system-role"
    /\ \E r \in roles : r.id = "R1" /\ r.es_rol_sistema /\ r.nombre = "Administrador"

\* C21: every row of permisos_roles and of roles_usuarios references an
\* existing role, and after delete_rol succeeded for a role no row of either
\* table references it.
C21_JoinRowsReferenceRoles ==
    /\ \A rp \in permisos_roles : \E r \in roles : r.id = rp.rol_id
    /\ \A ur \in roles_usuarios : \E r \in roles : r.id = ur.rol_id
    /\ (req.op = "delete_rol" /\ resp.status = 204)
       => /\ ~\E r \in roles : r.id = req.arg.id
          /\ ~\E rp \in permisos_roles : rp.rol_id = req.arg.id
          /\ ~\E ur \in roles_usuarios : ur.rol_id = req.arg.id

\* a tenant administrator has deleted a role of the tenant
C21_Witness ==
    /\ req.op = "delete_rol"
    /\ resp.status = 204
    /\ Claims(req.tok).cliente_id # NULL
    /\ ~\E r \in roles : r.id = req.arg.id

-----------------------------------------------------------------------------
(* Properties of update_rol beside concurrent readers (SpecConcurrente) *)

\* the codes a user has through the rows links of permisos_roles
CodesVia(links, user_id) ==
    {p.codigo : p \in {q \in Permisos :
                         \E r \in HeldRoles(user_id), l \in links :
                            l.rol_id = r.id /\ l.permiso_id = q.id}}

\* permisos_roles once the update_rol in t has finished: the role's rows
\* replaced by the requested ones, or the old rows when an id is unknown or
\* no permiso_ids were sent
NewLinks(t) ==
    IF t.permiso_ids.is_none \/ ~(t.permiso_ids.ids \subseteq {p.id : p \in Permisos})
    THEN t.old_links
    ELSE {rp \in t.old_links : rp.rol_id # t.rol_id}
           \cup {[rol_id |-> t.rol_id, permiso_id |-> i] : i \in t.permiso_ids.ids}

\* C22: a reader running beside update_rol (get_user_permissions, login) sees
\* the complete old or the complete new permission set, never the emptied or
\* partly filled one; update_rol failing with 400 on an unknown permission id
\* leaves the old permission set and role fields, and a successful one leaves
\* exactly the new set.
C22_UpdateRolAtomic ==
    [][ /\ ( /\ tx.pc \in InFlight
             /\ Idle
             /\ req'.op = "get_user_permissions" )
           => Values(resp'.body) \in {CodesVia(tx.old_links, req'.arg.user_id),
                                      CodesVia(NewLinks(tx), req'.arg.user_id)}
        /\ ( /\ tx.pc \in InFlight
             /\ Idle
             /\ req'.op = "login_for_access_token"
             /\ resp'.status = 200 )
           => \A b \in resp'.body :
                 Values(b.permisos) \in {CodesVia(tx.old_links, b.usuario),
                                         CodesVia(NewLinks(tx), b.usuario)}
        /\ (tx.pc \in InFlight /\ tx'.pc = "done" /\ tx'.status = 400)
           => roles' = tx.old_roles /\ permisos_roles' = tx.old_links
        /\ (tx.pc \in InFlight /\ tx'.pc = "done" /\ tx'.status = 200)
           => permisos_roles' = NewLinks(tx) ]_vars

\* the permissions of the role's holder have been read, the old ones, while
\* update_rol has deleted the role's rows and not yet added the new ones
C22_Witness ==
    /\ tx.pc = "refill"
    /\ tx.rol_id = "R2"
    /\ ~\E rp \in tx.links : rp.rol_id = "R2"
    /\ req.op = "get_user_permissions"
    /\ req.arg.user_id = "U1"
    /\ "administracion.roles.leer" \in Values(resp.body)

-----------------------------------------------------------------------------
(* Properties of the user and role endpoints (SpecAdmin), continued *)

\* the request of this step asks for a username that another user has or for
\* a role name that another role of the same tenant has
AsksDuplicate ==
    \/ /\ req'.op = "crear_usuario"
       /\ \E u \in usuarios : u.nombre_usuario = req'.arg.nombre_usuario
    \/ /\ req'.op = "actualizar_usuario"
       /\ req'.arg.user_data.nombre_usuario # UNSET
       /\ \E u \in usuarios : /\ u.id # req'.arg.id
                              /\ u.nombre_usuario = req'.arg.user_data.nombre_usuario
       /\ \E u \in usuarios : u.id = req'.arg.id
    \/ /\ req'.op = "create_rol"
       /\ \E r \in roles : r.nombre = req'.arg.nombre /\ r.cliente_id = resp'.scope
    \/ /\ req'.op = "update_rol"
       /\ req'.arg.nombre # UNSET
       /\ \E r \in roles, other \in roles :
             /\ r.id = req'.arg.id
             /\ other.id # r.id
             /\ other.cliente_id = r.cliente_id
             /\ other.nombre = req'.arg.nombre

\* C23: a request that would store a duplicate username or a duplicate role
\* name within a tenant is answered with a client error (4xx), never with a
\* server fault, and leaves the stored data unchanged.
C23_UniquenessIs4xx ==
    [][ (Idle /\ resp'.ran /\ AsksDuplicate)
        => /\ resp'.status \in 400..499
           /\ UNCHANGED adminTables ]_vars

\* C24: create_rol creates the role together with its permissions: a request
\* naming existing permissions and a name unused in the caller's tenant is
\* answered 201; after a 201 there is a new role of the caller's tenant (null
\* for a Super Admin without tenant), not a system role, whose permisos_roles
\* rows are exactly the requested permiso_ids; a request naming an id that is
\* no permission is answered 400 and stores neither role nor join row.
C24_CreateRolWithPermisos ==
    [][ (Idle /\ req'.op = "create_rol" /\ resp'.ran)
        => LET requested == req'.arg.permiso_ids
               known == requested \subseteq {p.id : p \in Permisos}
               unused == ~\E r \in roles : /\ r.nombre = req'.arg.nombre
                                           /\ r.cliente_id = resp'.scope
           IN /\ resp'.status = 201
                 => \E r \in roles' \ roles :
                       /\ r.cliente_id = TokenTenant(req'.tok)
                       /\ ~r.es_rol_sistema
                       /\ {rp.permiso_id : rp \in {x \in permisos_roles' : x.rol_id = r.id}}
                            = requested
              /\ ~known => /\ resp'.status = 400
                           /\ roles' = roles
                           /\ permisos_roles' = permisos_roles
              /\ (known /\ unused /\ FkOk(clientes, resp'.scope))
                 => resp'.status = 201 ]_vars

-----------------------------------------------------------------------------
(* Properties of the test-data load (SpecSeed) *)

\* every row the load writes is in its table
SeedLoaded ==
    /\ InitPermisos \subseteq tbl_permisos
    /\ InitClientes \subseteq clientes
    /\ InitRoles \subseteq roles
    /\ InitPermisosRoles \subseteq permisos_roles
    /\ InitUsuarios \subseteq usuarios
    /\ InitRolesUsuarios \subseteq roles_usuarios

\* C25: whenever cargar_datos_prueba answers "Datos ya cargados previamente",
\* the permissions, tenants, roles, role-permission rows, users and user-role
\* rows of the load are all in the database, and the call changed nothing
C25_SeedIdempotent ==
    [][ (req'.op = "cargar_datos_prueba"
         /\ resp'.detail = "Datos ya cargados previamente")
        => /\ SeedLoaded
           /\ UNCHANGED <<adminTables, comprasTables, tbl_permisos>> ]_vars

-----------------------------------------------------------------------------
(* Properties of login (SpecLogin), continued *)

\* C26: a login with invalid credentials (no user of that name, or a password
\* that does not verify) is answered 401 "Nombre de usuario o contraseña
\* incorrectos"; a login is answered 500 only when its credentials were not
\* merely invalid
C26_InvalidCredentialsAre401 ==
    [][ req'.op = "login_for_access_token"
        => LET auth == authenticate_user(req'.arg.username, req'.arg.password,
                                         req'.arg.build)
           IN /\ auth.result = "False"
                 => /\ resp'.status = 401
                    /\ resp'.detail = "Nombre de usuario o contraseña incorrectos"
              /\ resp'.status = 500 => auth.result \notin {"False", "user"} ]_vars

-----------------------------------------------------------------------------
(* Properties of the role endpoints (SpecAdmin), continued *)

\* C27: the reserved role name is never tenant-scoped: every role named
\* "Super Admin" has a null cliente_id, whatever roles the endpoints created
\* or renamed
C27_SuperAdminNameIsGlobal ==
    \A r \in roles : r.nombre = SUPER_ADMIN_ROLE_NAME => r.cliente_id = NULL

-----------------------------------------------------------------------------
(* Properties of the purchasing/inventory rows (SpecCompras), continued *)

\* the row of table that id names has the tenant cliente_id, when there is
\* such a row
SameTenant(table, id, cliente_id) ==
    \A t \in table : t.id = id => t.cliente_id = cliente_id

\* C28: references between tenant-owned rows never cross tenants: the product
\* of an order item, the supplier of an order, the supplier of a supplier
\* invoice, and the category and the supplier of a product have the
\* cliente_id of the row that references them (an order item, which has no
\* cliente_id column, that of its order)
C28_ReferencesStayInTenant ==
    /\ \A i \in ordenes_compra_items : \A o \in ordenes_compra :
          o.id = i.orden_compra_id
          => SameTenant(productos, i.producto_id, o.cliente_id)
    /\ \A o \in ordenes_compra :
          SameTenant(proveedores, o.proveedor_id, o.cliente_id)
    /\ \A f \in facturas_proveedores :
          SameTenant(proveedores, f.proveedor_id, f.cliente_id)
    /\ \A k \in productos :
          /\ SameTenant(categorias_productos, k.categoria_id, k.cliente_id)
          /\ SameTenant(proveedores, k.proveedor_id, k.cliente_id)

-----------------------------------------------------------------------------
(* Properties of the user and role handlers without a tenant (SpecAdmin) *)

\* C29: whenever the body of a handler guarded by require_permission runs
\* with current_user.cliente_id null, the role list of the token contains
\* "Super Admin"; so the answer a user or role handler computes without a
\* tenant filter goes to a Super Admin token only
C29_NoTenantOnlySuperAdmin ==
    (resp.ran /\ req.code # NULL /\ resp.user.cliente_id = NULL)
    => /\ SUPER_ADMIN_ROLE_NAME \in resp.user.roles
       /\ SUPER_ADMIN_ROLE_NAME \in req.tok.claims.roles

\* leer_usuarios answered a token without a tenant with the users of every
\* tenant
C29_Witness ==
    /\ resp.ran
    /\ req.op = "leer_usuarios"
    /\ resp.user.cliente_id = NULL
    /\ resp.status = 200
    /\ resp.body = usuarios
    /\ \E u, v \in resp.body : u.cliente_id # v.cliente_id

-----------------------------------------------------------------------------
(* Properties of login beside deactivation (SpecEstado) *)

\* the rows of a table with a column left out of the comparison
Ids(table) == {t.id : t \in table}
SaveEstado(table) == {[t EXCEPT !.estado = "any"] : t \in table}

\* C30: the outcome of login depends on the username lookup and the password
\* check only: a user of that name whose password verifies obtains a token,
\* whatever the estado of the user and of the user's tenant; desactivar_usuario
\* and desactivar_cliente change nothing but the estado of the row they name,
\* and remove neither a user row nor a role assignment
C30_LoginIgnoresEstado ==
    [][ /\ req'.op = "login_for_access_token"
           => LET found == {u \in usuarios :
                              u.nombre_usuario = req'.arg.username}
              IN (\E u \in found :
                     verify_password(req'.arg.password, u.contrasena_hash,
                                     req'.arg.build) = "True")
                 <=> /\ resp'.status = 200
                     /\ issued' # {}
                     /\ \E b \in resp'.body : {b.usuario} = Ids(found)
        /\ req'.op \in {"desactivar_usuario", "desactivar_cliente"}
           => /\ SaveEstado(usuarios') = SaveEstado(usuarios)
              /\ SaveEstado(clientes') = SaveEstado(clientes)
              /\ roles_usuarios' = roles_usuarios
              /\ roles' = roles /\ permisos_roles' = permisos_roles ]_vars

\* a token was issued to a deactivated user of a suspended tenant who holds a
\* role assignment
C30_Witness ==
    /\ req.op = "login_for_access_token"
    /\ resp.status = 200
    /\ issued # {}
    /\ \E u \in usuarios :
          /\ u.nombre_usuario = req.arg.username
          /\ u.estado = "inactivo"
          /\ \E c \in clientes : c.id = u.cliente_id /\ c.estado = "suspendido"
          /\ \E ur \in roles_usuarios : ur.usuario_id = u.id

====
